---- MODULE Spec2Model ----
(***************************************************************************)
(* A model of the simtemp self-test suite (src/user/cli/test_mode.py):     *)
(* the orchestrator run_all_tests, the six test cases TP1..TP6 and the     *)
(* TP4 reader thread, running against a device node and its sysfs          *)
(* attributes whose operations may fail.                                   *)
(***************************************************************************)
EXTENDS Integers, Sequences, FiniteSets, TLC

(* ------------------------------ bounds -------------------------------- *)
\* number of environment deviations (rejected write, failed read, timeout,
\* device error, unexpected sample) one run of the suite may contain
MaxFaults == 2
\* iterations of the TP4 writer loop before its 5 s duration has elapsed
MaxIter == 1
\* samples the TP4 reader reads successfully
MaxReads == 1
\* the tokens of a stats text given to _parse_stats
MaxTokens == 3
\* the largest index the writer loop of TP4 is entered with: the iterations
\* that fit into TP4_DURATION_S (5 s) at one sleep of 0.02 s each
MaxIndex == 250

(* ------------------------- program constants -------------------------- *)
TEST_FAIL_CODE == -1
TEST_PASS_CODE == 0
\* the overall timeout of a test case, in seconds
TEST_TIMEOUT_SECONDS == 10
TP1_SAMPLING_MS_FAST == 100
TP1_SAMPLING_MS_SLOW == 1000
TP1_EXPECTED_COUNT_FAST == 10
TP1_EXPECTED_COUNT_SLOW == 10
TP1_TOLERANCE == 1
TP1_COHERENCE_READS == 3
TP2_ALERT_THRESHOLD_MC == -50000
TP2_EXPECTED_ALERTS == 2
SAMPLING_MS_MIN == 100
SAMPLING_MS_MAX == 60000
THRESHOLD_MC_MIN == -50000
THRESHOLD_MC_MAX == 150000
TP6_RAMP_SAMPLES == 5
TP6_NOISY_SAMPLES == 20
TP6_NOISY_MAX_CONSECUTIVE == 2
\* config_file.SAMPLE_SIZE_BYTES
SAMPLE_SIZE_BYTES == 16
\* the timeouts of reader_thread.join after the writer loop and in the finally
\* block, in seconds
TP4_JOIN_TIMEOUT_S == 2
TP4_FINAL_JOIN_TIMEOUT_S == 1

\* Optional[T]: None is the empty tuple, a value v is <<v>>
None == <<>>
Some(v) == <<v>>

\* how a call ends: it returns a value, or an exception leaves it
Return(v) == [kind |-> "return", value |-> v]
Raise == [kind |-> "raise", value |-> FALSE]
NoRet == [kind |-> "none", value |-> FALSE]

Attrs == {"sampling_ms", "threshold_mc", "mode"}

\* one thing a test case observed: what happened, on what, with what value
Obs(what, where, val) == [what |-> what, where |-> where, val |-> val]
Seen(cond, what, where, val) == IF cond THEN {Obs(what, where, val)} ELSE {}
NoOriginal == [a \in Attrs |-> None]

\* one call on a handle or a thread, with its argument where it has one
Call(name, arg) == [name |-> name, arg |-> arg]

\* a cleanup that closes without looking at fd
Release_Unguarded(f, p) == << Call("unregister", 0), Call("close", 0) >>

\* "if fd >= 0: if poller: poller.unregister(fd); os.close(fd)"
Release(f, p) ==
  IF f >= 0
    THEN (IF p THEN << Call("unregister", 0) >> ELSE << >>) \o << Call("close", 0) >>
    ELSE << >>

\* test_functions with the concurrency and read-offset cases exchanged
test_functions_swapped ==
  << "_test_periodic_read", "_test_threshold_event", "_test_sysfs_limits",
     "_test_api_contract_offset", "_test_concurrency", "_test_mode_behavior" >>

\* the list test_functions of run_all_tests, in its order
test_functions ==
  << "_test_periodic_read", "_test_threshold_event", "_test_sysfs_limits",
     "_test_concurrency", "_test_api_contract_offset", "_test_mode_behavior" >>

\* test_func.__name__.replace("_test_", "").upper()
test_name(f) ==
  CASE f = "_test_periodic_read"       -> "PERIODIC_READ"
    [] f = "_test_threshold_event"     -> "THRESHOLD_EVENT"
    [] f = "_test_sysfs_limits"        -> "SYSFS_LIMITS"
    [] f = "_test_concurrency"         -> "CONCURRENCY"
    [] f = "_test_api_contract_offset" -> "API_CONTRACT_OFFSET"
    [] f = "_test_mode_behavior"       -> "MODE_BEHAVIOR"

\* the first program position of each test function
entry_pc(f) ==
  CASE f = "_test_periodic_read"       -> "tp1_get"
    [] f = "_test_threshold_event"     -> "tp2_get"
    [] f = "_test_sysfs_limits"        -> "tp3_get"
    [] f = "_test_concurrency"         -> "tp4_get"
    [] f = "_test_api_contract_offset" -> "tp5_open"
    [] f = "_test_mode_behavior"       -> "tp6_get"

VARIABLES
  \* --- the machine the suite runs on
  euid,            \* os.geteuid()
  dev_exists,      \* os.path.exists(DRIVER_DEV_PATH)
  sysfs_exists,    \* os.path.exists(conf.MODE_PATH)
  cfg,             \* the device's sysfs attributes sampling_ms, threshold_mc, mode
  faults,          \* environment deviations so far
  \* --- run_all_tests
  pc,              \* position of the main thread
  idx,             \* index into test_functions of the current iteration
  ret,             \* what the call test_func() produced: a return value or a raise
  results,         \* the dict results
  overall_passed,
  final_result,    \* run_all_tests' return value, None until it returns
  \* --- locals of the running test case
  passed,
  original,        \* original_sampling, original_threshold, original_mode
  ret_pending,     \* value of a return statement executed inside try, if any
  fd,
  poller,          \* fd is registered with the poll object
  cnt,             \* read_ok_count / alert_count / samples_read
  aux,             \* initial stats counter, timeout flag, step, last_temp_mc
  consec,          \* consecutive_equal_count
  \* --- TP4
  stop_event,
  reader_results,
  writer_errors,
  wi,              \* the writer loop's i
  alive_at_check,  \* reader_thread.is_alive() as evaluated at line 544
  rpc,             \* position of the reader thread
  r_fd,
  r_poller,
  r_read_count,
  r_errors,
  \* --- history
  started,         \* names of the test cases started, in order
  escaped,         \* names of the test cases that raised into run_all_tests
  prechecks,       \* times the preconditions were evaluated
  opened,          \* os.open was attempted on the device
  cfg_touched,     \* a sysfs attribute was read or written
  entry,           \* cfg when the running test case was entered
  changed,         \* attributes changed and not written back since
  dirtied,         \* attributes the running test case has changed at all
  restore_rejected,\* attributes whose latest restoring write was rejected
  polls_after_stop,\* reader polls begun while stop_event was set
  reads_after_stop,\* reader reads begun while stop_event was set
  obs,             \* what the running test case has observed of the device
  clearing_reads,  \* TP2: reads attempted after an alert was counted
  readings,        \* TP6: the latest readings the running sub-check was delivered
  calls,           \* calls the running test case made on handles and threads
  r_calls,         \* calls the reader thread made on its handle
  r_failures,      \* failures the reader thread has met
  \* --- TP2's clock
  now,             \* time.monotonic() - start_time, in microseconds
  remaining_ms,
  events,          \* the event mask of the latest poll(), empty: no event
  \* --- the decoding helpers, called on their own
  stats_parts,     \* the tokens the stats text was put together from
  stats_str,       \* _parse_stats' argument
  stats,           \* what _parse_stats returned
  raw_data,        \* parse_sample's argument, and what os.pread returns
  os_error,        \* os.pread raises OSError
  sample,          \* what parse_sample returned
  read_ret         \* what _read_sample returned

envVars   == << euid, dev_exists, sysfs_exists >>
orchVars  == << idx, ret, results, overall_passed, final_result, started,
                escaped, prechecks >>
localVars == << passed, original, ret_pending, fd, poller, cnt, aux, consec >>
tp4Vars   == << stop_event, reader_results, writer_errors, wi, alive_at_check >>
readerVars == << rpc, r_fd, r_poller, r_read_count, r_errors,
                 polls_after_stop, reads_after_stop >>
histVars  == << entry, changed, restore_rejected >>
rsideVars == << r_calls, r_failures >>
clockVars == << now, remaining_ms, events >>
codecVars == << stats_parts, stats_str, stats, raw_data, os_error, sample, read_ret >>
restVars  == << clockVars, codecVars >>
sideVars  == << readings, calls, rsideVars, restVars >>
obsVars   == << obs, clearing_reads, sideVars >>
programVars == << envVars, cfg, faults, pc, orchVars, localVars, tp4Vars,
                 readerVars, opened, cfg_touched, histVars, dirtied, obs,
                 clearing_reads, readings, calls, rsideVars >>
vars == << envVars, cfg, faults, pc, orchVars, localVars, tp4Vars, readerVars,
           opened, cfg_touched, histVars, dirtied, obsVars >>

(* ------------------------- the environment ---------------------------- *)
\* an outcome that deviates from the device's nominal behaviour uses up one
\* unit of the fault budget
EnvN(k) ==
  /\ faults + k <= MaxFaults
  /\ faults' = faults + k
Env(nominal) == EnvN(IF nominal THEN 0 ELSE 1)

\* configuration.set_config_value: TRUE and the attribute holds the value,
\* or FALSE and the attribute is as before
set_config_value(c, attr, value, ok) ==
  IF ok THEN [c EXCEPT ![attr] = value] ELSE c

\* configuration.get_config_value and the typed getters on top of it
get_config_value(c, attr, ok) ==
  IF ok THEN Some(c[attr]) ELSE None

(* ------------------------------ Init ---------------------------------- *)
ProgramInit ==
  /\ euid \in {0, 1000}
  /\ dev_exists \in BOOLEAN
  /\ sysfs_exists \in BOOLEAN
  /\ cfg \in [sampling_ms : {500}, threshold_mc : {25000},
              mode : {"normal", "noisy"}]
  /\ faults = 0
  /\ pc = "start"
  /\ idx = 1
  /\ ret = NoRet
  /\ results = << >>
  /\ overall_passed = TRUE
  /\ final_result = None
  /\ passed = TRUE
  /\ original = NoOriginal
  /\ ret_pending = None
  /\ fd = -1
  /\ poller = FALSE
  /\ cnt = 0
  /\ aux = 0
  /\ consec = 0
  /\ stop_event = FALSE
  /\ reader_results = [read_count |-> 0, errors |-> 0]
  /\ writer_errors = 0
  /\ wi = 0
  /\ alive_at_check = FALSE
  /\ rpc = "idle"
  /\ r_fd = -1
  /\ r_poller = FALSE
  /\ r_read_count = 0
  /\ r_errors = 0
  /\ started = << >>
  /\ escaped = {}
  /\ prechecks = 0
  /\ opened = FALSE
  /\ cfg_touched = FALSE
  /\ entry = cfg
  /\ changed = {}
  /\ dirtied = {}
  /\ restore_rejected = {}
  /\ polls_after_stop = 0
  /\ reads_after_stop = 0
  /\ obs = {}
  /\ clearing_reads = 0
  /\ readings = << >>
  /\ calls = << >>
  /\ r_calls = << >>
  /\ r_failures = 0
  /\ now = 0
  /\ remaining_ms = 0
  /\ events = {}

\* no decoding helper has been called on its own
CodecIdle ==
  /\ stats_parts = << >>
  /\ stats_str = None
  /\ stats = NoRet
  /\ raw_data = << >>
  /\ os_error = FALSE
  /\ sample = NoRet
  /\ read_ret = NoRet

Init == ProgramInit /\ CodecIdle

(* --------------------------- run_all_tests ---------------------------- *)
\* the guards without the check of the sysfs path
PreconditionsHold_NoSysfs(uid, dev, sysfs) == uid = 0 /\ dev

\* the two guards at the head of run_all_tests
PreconditionsHold(uid, dev, sysfs) == uid = 0 /\ dev /\ sysfs

Precheck ==
  /\ pc = "start"
  /\ prechecks' = prechecks + 1
  /\ IF PreconditionsHold(euid, dev_exists, sysfs_exists)
       THEN /\ pc' = "loop"
            /\ final_result' = final_result
       ELSE /\ pc' = "done"
            /\ final_result' = Some(TEST_FAIL_CODE)
  /\ UNCHANGED << envVars, obsVars, cfg, faults, idx, ret, results, overall_passed,
                  started, escaped, localVars, tp4Vars, readerVars, opened,
                  cfg_touched, histVars, dirtied >>

\* the locals a test function starts with (passed is True except in TP2, TP5)
InitialPassed(f) == f \notin {"_test_threshold_event", "_test_api_contract_offset"}

\* for test_func in test_functions: ... test_func()
CallTest ==
  /\ pc = "loop"
  /\ idx <= Len(test_functions)
  /\ started' = Append(started, test_name(test_functions[idx]))
  /\ pc' = entry_pc(test_functions[idx])
  /\ passed' = InitialPassed(test_functions[idx])
  /\ original' = NoOriginal
  /\ ret_pending' = None
  /\ fd' = -1
  /\ poller' = FALSE
  /\ cnt' = 0
  /\ aux' = 0
  /\ consec' = 0
  /\ ret' = NoRet
  /\ entry' = cfg
  /\ changed' = {}
  /\ dirtied' = {}
  /\ restore_rejected' = {}
  /\ obs' = {}
  /\ clearing_reads' = 0
  /\ readings' = << >>
  /\ calls' = << >>
  /\ now' = 0
  /\ remaining_ms' = 0
  /\ events' = {}
  \* what an ended TP4 and its ended reader thread left behind is gone
  /\ IF rpc = "r_done"
       THEN /\ stop_event' = FALSE
            /\ reader_results' = [read_count |-> 0, errors |-> 0]
            /\ writer_errors' = 0
            /\ wi' = 0
            /\ alive_at_check' = FALSE
            /\ rpc' = "idle"
            /\ r_fd' = -1
            /\ r_poller' = FALSE
            /\ r_read_count' = 0
            /\ r_errors' = 0
            /\ polls_after_stop' = 0
            /\ reads_after_stop' = 0
            /\ r_calls' = << >>
            /\ r_failures' = 0
       ELSE UNCHANGED << tp4Vars, readerVars, rsideVars >>
  /\ UNCHANGED << envVars, cfg, faults, idx, results, overall_passed,
                  final_result, escaped, prechecks, opened, cfg_touched,
                  codecVars >>

\* an except branch that records the escaped fault as a pass
RecordedOutcome_RaisePasses(r) == IF r.kind = "raise" THEN TRUE ELSE r.value

\* results[test_name] = passed, or False in the except branch
RecordedOutcome(r) == IF r.kind = "raise" THEN FALSE ELSE r.value

\* overall_passed overwritten by each outcome instead of being cleared
NextOverall_Last(overall, r) == IF r.kind = "raise" THEN FALSE ELSE r.value

\* overall_passed after one test case
NextOverall(overall, r) == IF RecordedOutcome(r) THEN overall ELSE FALSE

RecordResult ==
  /\ pc = "record"
  /\ results' = (test_name(test_functions[idx]) :> RecordedOutcome(ret)) @@ results
  /\ overall_passed' = NextOverall(overall_passed, ret)
  /\ escaped' = IF ret.kind = "raise"
                  THEN escaped \cup {test_name(test_functions[idx])}
                  ELSE escaped
  /\ idx' = idx + 1
  /\ pc' = "loop"
  /\ UNCHANGED << envVars, obsVars, cfg, faults, ret, final_result, started, prechecks,
                  localVars, tp4Vars, readerVars, opened, cfg_touched,
                  histVars, dirtied >>

\* final_result = TEST_PASS_CODE if overall_passed else TEST_FAIL_CODE
FinalResult(overall) == IF overall THEN TEST_PASS_CODE ELSE TEST_FAIL_CODE

Summary ==
  /\ pc = "loop"
  /\ idx > Len(test_functions)
  /\ final_result' = Some(FinalResult(overall_passed))
  /\ pc' = "done"
  /\ UNCHANGED << envVars, obsVars, cfg, faults, idx, ret, results, overall_passed,
                  started, escaped, prechecks, localVars, tp4Vars, readerVars,
                  opened, cfg_touched, histVars, dirtied >>

\* a test function seen from run_all_tests: it returns True or False, or an
\* exception escapes it
CallAnyTest ==
  /\ pc = "loop"
  /\ idx <= Len(test_functions)
  /\ started' = Append(started, test_name(test_functions[idx]))
  /\ \E r \in {Return(TRUE), Return(FALSE), Raise} : ret' = r
  /\ pc' = "record"
  /\ UNCHANGED << envVars, obsVars, cfg, faults, idx, results, overall_passed,
                  final_result, escaped, prechecks, localVars, tp4Vars,
                  readerVars, opened, cfg_touched, histVars, dirtied >>

(* ------------------ pieces shared by the test cases ------------------- *)
\* a finally block that leaves the restoring write out
RestoreGuard_Never(orig) == FALSE

\* "if original_x is not None:" guarding a restoring write in a finally block
RestoreGuard(orig) == orig # None

\* a test function that reports a failure by raising
FinallyReturn_RaiseOnFailure(pending, p) == IF p THEN Return(p) ELSE Raise

\* a finally block that ends in "return passed" replaces the value of any
\* return statement executed in the try block
FinallyReturn(pending, p) == Return(p)

\* attributes changed and not yet written back, after a write
AfterWrite(ch, attr, ok) == IF ok THEN ch \cup {attr} ELSE ch
\* the same after a write of the captured original value
AfterRestore(ch, attr) == ch \ {attr}
RejectedAfterRestore(rr, attr, ok) == IF ok THEN rr \ {attr} ELSE rr \cup {attr}

\* the 'updates' field of _parse_stats(conf.get_stats()): the counter, or -1
\* when the attribute could not be read or a token does not parse
parse_stats_updates(s) == IF s.kind = "ok" THEN s.updates ELSE -1

\* what the updates counter may have advanced by over a measuring window
Deltas == {8, 9, 10, 11, 12}
StatsNow(base) ==
  {[kind |-> "ok", updates |-> base + d] : d \in Deltas}
    \cup {[kind |-> "none", updates |-> 0], [kind |-> "malformed", updates |-> 0]}
StatsNominal(s, base) == s.kind = "ok" /\ s.updates = base + 10
\* the first snapshot of a window: the counter's value then is taken as 0
StatsFirst == {s \in StatsNow(-10) : s.kind = "ok" => s.updates = 0}

(* ---------------------- TP1: _test_periodic_read ---------------------- *)
TP1_GetOriginal ==
  /\ pc = "tp1_get"
  /\ \E ok \in BOOLEAN :
       /\ Env(ok)
       /\ original' = [original EXCEPT
                         !.sampling_ms = get_config_value(cfg, "sampling_ms", ok)]
       /\ IF ok THEN /\ pc' = "tp1_set_fast"
                     /\ ret_pending' = ret_pending
               ELSE /\ pc' = "tp1_finally"
                    /\ ret_pending' = Some(FALSE)
  /\ cfg_touched' = TRUE
  /\ UNCHANGED << envVars, obsVars, cfg, orchVars, passed, fd, poller, cnt, aux, consec,
                  tp4Vars, readerVars, opened, histVars, dirtied >>

TP1_SetFast ==
  /\ pc = "tp1_set_fast"
  /\ \E ok \in BOOLEAN :
       /\ Env(ok)
       /\ cfg' = set_config_value(cfg, "sampling_ms", TP1_SAMPLING_MS_FAST, ok)
       /\ changed' = AfterWrite(changed, "sampling_ms", ok)
       /\ dirtied' = AfterWrite(dirtied, "sampling_ms", ok)
       /\ IF ok THEN /\ pc' = "tp1_stats1"
                     /\ ret_pending' = ret_pending
               ELSE /\ pc' = "tp1_finally"
                    /\ ret_pending' = Some(FALSE)
  /\ cfg_touched' = TRUE
  /\ UNCHANGED << envVars, obsVars, orchVars, passed, original, fd, poller, cnt, aux, consec,
                  tp4Vars, readerVars, opened, entry, restore_rejected >>

\* initial_stats / initial_stats_slow
TP1_StatsInitial ==
  /\ pc \in {"tp1_stats1", "tp1_stats3"}
  /\ \E s \in StatsFirst :
       /\ Env(s.kind = "ok")
       /\ aux' = parse_stats_updates(s)
       /\ IF parse_stats_updates(s) < 0
            THEN /\ pc' = "tp1_finally"
                 /\ ret_pending' = Some(FALSE)
            ELSE /\ pc' = IF pc = "tp1_stats1" THEN "tp1_stats2" ELSE "tp1_stats4"
                 /\ ret_pending' = ret_pending
  /\ cfg_touched' = TRUE
  /\ UNCHANGED << envVars, obsVars, cfg, orchVars, passed, original, fd, poller, cnt,
                  tp4Vars, readerVars, opened, histVars, dirtied, consec >>

\* a verification that accepts the expected count only
StatsOk_Exact(diff, expected) == diff = expected

\* stats_ok_fast / stats_ok_slow
StatsOk(diff, expected) ==
  (IF diff - expected < 0 THEN expected - diff ELSE diff - expected) <= TP1_TOLERANCE

\* final_stats / final_stats_slow and the verification of the difference
TP1_StatsFinal ==
  /\ pc \in {"tp1_stats2", "tp1_stats4"}
  /\ \E s \in StatsNow(aux) :
       /\ Env(StatsNominal(s, aux))
       /\ IF parse_stats_updates(s) < 0
            THEN /\ pc' = "tp1_finally"
                 /\ ret_pending' = Some(FALSE)
                 /\ passed' = passed
            ELSE /\ pc' = IF pc = "tp1_stats2" THEN "tp1_open" ELSE "tp1_finally"
                 /\ ret_pending' = ret_pending
                 /\ passed' =
                      (passed /\ StatsOk(parse_stats_updates(s) - aux,
                                         IF pc = "tp1_stats2"
                                           THEN TP1_EXPECTED_COUNT_FAST
                                           ELSE TP1_EXPECTED_COUNT_SLOW))
       /\ obs' = obs \cup Seen(parse_stats_updates(s) >= 0, "delta",
                               IF pc = "tp1_stats2" THEN "fast" ELSE "slow",
                               parse_stats_updates(s) - aux)
  /\ cfg_touched' = TRUE
  /\ aux' = 0
  /\ UNCHANGED << envVars, clearing_reads, sideVars, cfg, orchVars, original, fd, poller, cnt,
                  tp4Vars, readerVars, opened, histVars, dirtied, consec >>

\* os.open, select.poll(), poller.register; an OSError is caught at line 164
TP1_Open ==
  /\ pc = "tp1_open"
  /\ \E ok \in BOOLEAN :
       /\ Env(ok)
       /\ calls' = IF ok THEN Append(calls, Call("open", 0)) ELSE calls
       /\ IF ok THEN /\ fd' = 3
                     /\ poller' = TRUE
                     /\ passed' = passed
                     /\ pc' = "tp1_poll"
               ELSE /\ fd' = fd
                    /\ poller' = poller
                    /\ passed' = FALSE
                    /\ pc' = "tp1_close"
  /\ opened' = TRUE
  /\ cnt' = 0
  /\ UNCHANGED << envVars, obs, clearing_reads, readings, restVars, rsideVars, cfg, orchVars, original, ret_pending, aux, consec, tp4Vars,
                  readerVars, cfg_touched, histVars, dirtied >>


\* poller.poll(TP1_SAMPLING_MS_FAST * 2 + 100)
TP1_PollTimeout == TP1_SAMPLING_MS_FAST * 2 + 100

\* one wait of the coherence loop; without events: passed = False, break
TP1_Poll ==
  /\ pc = "tp1_poll"
  /\ \E ready \in BOOLEAN :
       /\ Env(ready)
       /\ obs' = obs \cup {Obs("wait", "coherence", TP1_PollTimeout)}
                     \cup Seen(~ready, "timeout", "coherence", cnt)
       /\ IF ready THEN /\ pc' = "tp1_read"
                        /\ passed' = passed
                  ELSE /\ pc' = "tp1_close"
                       /\ passed' = FALSE
  /\ UNCHANGED << envVars, clearing_reads, sideVars, cfg, orchVars, original, ret_pending, fd, poller,
                  cnt, aux, consec, tp4Vars, readerVars, opened, cfg_touched, histVars, dirtied >>

\* _read_sample(fd): a sample, or None and passed = False, break
TP1_Read ==
  /\ pc = "tp1_read"
  /\ \E ok \in BOOLEAN :
       /\ Env(ok)
       /\ obs' = obs \cup Seen(~ok, "read_failed", "coherence", cnt)
       /\ IF ok THEN /\ cnt' = cnt + 1
                     /\ passed' = passed
                     /\ pc' = IF cnt + 1 < TP1_COHERENCE_READS
                                THEN "tp1_poll" ELSE "tp1_close"
               ELSE /\ cnt' = cnt
                    /\ passed' = FALSE
                    /\ pc' = "tp1_close"
  /\ UNCHANGED << envVars, clearing_reads, sideVars, cfg, orchVars, original, ret_pending, fd, poller,
                  aux, consec, tp4Vars, readerVars, opened, cfg_touched, histVars, dirtied >>

\* the inner finally and the check of read_ok_count
TP1_CloseCoherence ==
  /\ pc = "tp1_close"
  /\ fd' = -1
  /\ poller' = FALSE
  /\ passed' = (passed /\ cnt = TP1_COHERENCE_READS)
  /\ pc' = "tp1_set_slow"
  /\ calls' = calls \o Release(fd, poller)
  /\ UNCHANGED << envVars, obs, clearing_reads, readings, restVars, rsideVars, cfg, faults, orchVars, original, ret_pending, cnt,
                  aux, consec, tp4Vars, readerVars, opened, cfg_touched, histVars, dirtied >>

TP1_SetSlow ==
  /\ pc = "tp1_set_slow"
  /\ \E ok \in BOOLEAN :
       /\ Env(ok)
       /\ cfg' = set_config_value(cfg, "sampling_ms", TP1_SAMPLING_MS_SLOW, ok)
       /\ changed' = AfterWrite(changed, "sampling_ms", ok)
       /\ dirtied' = AfterWrite(dirtied, "sampling_ms", ok)
       /\ pc' = IF ok THEN "tp1_stats3" ELSE "tp1_restore_early"
  /\ cfg_touched' = TRUE
  /\ UNCHANGED << envVars, obsVars, orchVars, localVars, tp4Vars, readerVars, opened,
                  entry, restore_rejected >>

\* line 186: restore before "return False"
TP1_RestoreEarly ==
  /\ pc = "tp1_restore_early"
  /\ \E ok \in BOOLEAN :
       /\ Env(ok)
       /\ cfg' = set_config_value(cfg, "sampling_ms", original.sampling_ms[1], ok)
       /\ restore_rejected' = RejectedAfterRestore(restore_rejected, "sampling_ms", ok)
  /\ changed' = AfterRestore(changed, "sampling_ms")
  /\ ret_pending' = Some(FALSE)
  /\ pc' = "tp1_finally"
  /\ UNCHANGED << envVars, obsVars, orchVars, passed, original, fd, poller, cnt, aux, consec,
                  tp4Vars, readerVars, opened, cfg_touched, entry, dirtied >>

TP1_Finally ==
  /\ pc = "tp1_finally"
  /\ IF RestoreGuard(original.sampling_ms)
       THEN \E ok \in BOOLEAN :
              /\ Env(ok)
              /\ cfg' = set_config_value(cfg, "sampling_ms",
                                         original.sampling_ms[1], ok)
              /\ restore_rejected' =
                   RejectedAfterRestore(restore_rejected, "sampling_ms", ok)
              /\ changed' = AfterRestore(changed, "sampling_ms")
       ELSE UNCHANGED << cfg, faults, restore_rejected, changed >>
  /\ ret' = FinallyReturn(ret_pending, passed)
  /\ pc' = "record"
  /\ calls' = calls \o Release(fd, poller)
  /\ UNCHANGED << envVars, obs, clearing_reads, readings, restVars, rsideVars, idx, results, overall_passed, final_result, started,
                  escaped, prechecks, passed, original, ret_pending, poller, cnt,
                  aux, consec, tp4Vars, readerVars, opened, cfg_touched, entry, dirtied >>
  /\ fd' = fd

(* --------------------- TP2: _test_threshold_event --------------------- *)
TP2_GetOriginal ==
  /\ pc = "tp2_get"
  /\ \E ok \in BOOLEAN :
       /\ Env(ok)
       /\ original' = [original EXCEPT
                         !.threshold_mc = get_config_value(cfg, "threshold_mc", ok)]
       /\ IF ok THEN /\ pc' = "tp2_set"
                     /\ ret_pending' = ret_pending
               ELSE /\ pc' = "tp2_finally"
                    /\ ret_pending' = Some(FALSE)
  /\ cfg_touched' = TRUE
  /\ UNCHANGED << envVars, obsVars, cfg, orchVars, passed, fd, poller, cnt, aux, consec,
                  tp4Vars, readerVars, opened, histVars, dirtied >>

TP2_SetThreshold ==
  /\ pc = "tp2_set"
  /\ \E ok \in BOOLEAN :
       /\ Env(ok)
       /\ cfg' = set_config_value(cfg, "threshold_mc", TP2_ALERT_THRESHOLD_MC, ok)
       /\ changed' = AfterWrite(changed, "threshold_mc", ok)
       /\ dirtied' = AfterWrite(dirtied, "threshold_mc", ok)
       /\ IF ok THEN /\ pc' = "tp2_open"
                     /\ ret_pending' = ret_pending
               ELSE /\ pc' = "tp2_finally"
                    /\ ret_pending' = Some(FALSE)
  /\ cfg_touched' = TRUE
  /\ UNCHANGED << envVars, obsVars, orchVars, passed, original, fd, poller, cnt, aux, consec,
                  tp4Vars, readerVars, opened, entry, restore_rejected >>

\* time.monotonic() - start_time, in microseconds, when the while loop is
\* reached: the threshold has been read and written and the device opened
TP2_SetupTimes == {300, 1500}

\* seconds as microseconds
Micros(seconds) == seconds * 1000000

\* what is left of the overall timeout after elapsed microseconds, in
\* milliseconds, cut off as int() does and without a lower limit
RemainingMs_NoFloor(elapsed) == (Micros(TEST_TIMEOUT_SECONDS) - elapsed) \div 1000

\* max(1, int((TEST_TIMEOUT_SECONDS - elapsed_time) * 1000)), for an
\* elapsed_time that is not above TEST_TIMEOUT_SECONDS
RemainingMs(elapsed) ==
  LET ms == (Micros(TEST_TIMEOUT_SECONDS) - elapsed) \div 1000
  IN  IF ms > 1 THEN ms ELSE 1

\* os.open(O_NONBLOCK), poller.register(fd, POLLPRI); an OSError is caught at
\* line 299
TP2_Open ==
  /\ pc = "tp2_open"
  /\ \E ok \in BOOLEAN, t \in TP2_SetupTimes :
       /\ Env(ok)
       /\ calls' = IF ok THEN Append(calls, Call("open", 0)) ELSE calls
       /\ now' = IF ok THEN t ELSE now
       /\ IF ok THEN /\ fd' = 3
                     /\ poller' = TRUE
                     /\ passed' = passed
                     /\ pc' = "tp2_loop"
               ELSE /\ fd' = fd
                    /\ poller' = poller
                    /\ passed' = FALSE
                    /\ pc' = "tp2_finally"
  /\ opened' = TRUE
  /\ UNCHANGED << envVars, obs, clearing_reads, readings, remaining_ms, events, codecVars, rsideVars, cfg, orchVars, original, ret_pending, cnt, aux, consec,
                  tp4Vars, readerVars, cfg_touched, histVars, dirtied >>

\* the validation at line 291
TP2Verdict(test_failed_explicitly, alert_count) ==
  ~test_failed_explicitly /\ alert_count >= TP2_EXPECTED_ALERTS

\* the head of the while loop: the loop condition, then the timeout check
\* (aux = 1: it found more than TEST_TIMEOUT_SECONDS elapsed), then the
\* timeout of the next wait
TP2_LoopHead ==
  /\ pc = "tp2_loop"
  /\ IF cnt >= TP2_EXPECTED_ALERTS
       THEN /\ passed' = TP2Verdict(FALSE, cnt)
            /\ pc' = "tp2_finally"
            /\ UNCHANGED << aux, remaining_ms >>
       ELSE IF now > Micros(TEST_TIMEOUT_SECONDS)
              THEN /\ passed' = TP2Verdict(TRUE, cnt)
                   /\ pc' = "tp2_finally"
                   /\ aux' = 1
                   /\ remaining_ms' = remaining_ms
              ELSE /\ passed' = passed
                   /\ pc' = "tp2_poll"
                   /\ aux' = aux
                   /\ remaining_ms' = RemainingMs(now)
  /\ UNCHANGED << envVars, obs, clearing_reads, readings, calls, rsideVars, now,
                  events, codecVars, cfg, faults, orchVars, original,
                  ret_pending, fd, poller, cnt, consec, tp4Vars, readerVars,
                  opened, cfg_touched, histVars, dirtied >>

\* the event mask poll() reports for the descriptor; empty: the wait timed out
PollMasks == SUBSET {"POLLPRI", "POLLERR"}

\* "if event_mask & select.POLLPRI:"
IsAlert(mask) == "POLLPRI" \in mask
\* "elif event_mask & (select.POLLERR | select.POLLHUP | select.POLLNVAL):"
IsDeviceError(mask) == ~IsAlert(mask) /\ "POLLERR" \in mask

\* an alert branch without the pread
AfterAlert_NoRead == "tp2_loop"

\* what follows "alert_count += 1": the clearing pread
AfterAlert == "tp2_clear"

\* how much later than its timeout a wait that reports no event may return,
\* in microseconds
PollOvershoots == {0, 1000}

\* how long poll(timeout_ms) takes, in microseconds: with an event it
\* returns at once or half way through, without one when the timeout is over
PollDurations(mask, timeout_ms) ==
  IF mask = {} THEN {timeout_ms * 1000 + o : o \in PollOvershoots}
               ELSE {0, (timeout_ms * 1000) \div 2}

\* a device that raises no alert deviates once: the waits that follow one
\* that reported no event may do the same
NoAlertSeen(o) == Obs("no_event", "poll", 0) \in o

\* poller.poll(remaining_ms) and the handling of its event: a mask with
\* POLLPRI is counted as an alert, otherwise a mask with an error bit ends
\* the loop as failed; an empty result ("if not events: continue") leads back
\* to the head of the loop
TP2_Poll ==
  /\ pc = "tp2_poll"
  /\ \E mask \in PollMasks :
       \E d \in PollDurations(mask, remaining_ms) :
       /\ Env(mask = {"POLLPRI"} \/ (mask = {} /\ NoAlertSeen(obs)))
       /\ events' = mask
       /\ now' = now + d
       /\ cnt' = IF IsAlert(mask) THEN cnt + 1 ELSE cnt
       /\ obs' = obs \cup Seen("POLLERR" \in mask, "device_error", "poll", cnt')
                     \cup Seen(mask = {}, "no_event", "poll", 0)
       /\ IF IsAlert(mask)
            THEN /\ passed' = passed
                 /\ pc' = AfterAlert
            ELSE IF IsDeviceError(mask)
                   THEN /\ passed' = TP2Verdict(TRUE, cnt)
                        /\ pc' = "tp2_finally"
                   ELSE /\ passed' = passed
                        /\ pc' = "tp2_loop"
  /\ UNCHANGED << envVars, cfg, orchVars, original, ret_pending, fd, poller,
                  tp4Vars, readerVars, opened, cfg_touched, histVars, dirtied,
                  aux, consec, clearing_reads, readings, calls, rsideVars,
                  remaining_ms, codecVars >>

\* os.pread(fd, SAMPLE_SIZE_BYTES, 0) after an alert: BlockingIOError and
\* OSError are caught and only logged, the data is discarded
TP2_ClearingRead ==
  /\ pc = "tp2_clear"
  /\ \E r \in {"data", "EAGAIN", "OSError"} : Env(r = "data")
  /\ clearing_reads' = clearing_reads + 1
  /\ pc' = "tp2_loop"
  /\ UNCHANGED << envVars, cfg, orchVars, localVars, tp4Vars, readerVars,
                  opened, cfg_touched, histVars, dirtied, obs, sideVars >>

\* "passed = False" when the restoring write fails (line 311)
AfterRestoreTP2(p, ok) == p /\ ok

TP2_Finally ==
  /\ pc = "tp2_finally"
  /\ IF RestoreGuard(original.threshold_mc)
       THEN \E ok \in BOOLEAN :
              /\ Env(ok)
              /\ cfg' = set_config_value(cfg, "threshold_mc",
                                         original.threshold_mc[1], ok)
              /\ restore_rejected' =
                   RejectedAfterRestore(restore_rejected, "threshold_mc", ok)
              /\ changed' = AfterRestore(changed, "threshold_mc")
              /\ ret' = FinallyReturn(ret_pending, AfterRestoreTP2(passed, ok))
              /\ cfg_touched' = TRUE
       ELSE /\ ret' = FinallyReturn(ret_pending, passed)
            /\ UNCHANGED << cfg, faults, restore_rejected, changed, cfg_touched >>
  /\ pc' = "record"
  /\ calls' = calls \o Release(fd, poller)
  /\ UNCHANGED << envVars, obs, clearing_reads, readings, restVars, rsideVars, idx, results, overall_passed, final_result, started,
                  escaped, prechecks, localVars, tp4Vars, readerVars, opened,
                  entry, dirtied >>

(* ----------------------- TP3: _test_sysfs_limits ---------------------- *)
\* a choice of the mode to write that does not look at the original
valid_mode_Fixed(original_mode) == "noisy"

\* valid_mode = "noisy" if original_mode != "noisy" else "ramp"
valid_mode(original_mode) == IF original_mode # "noisy" THEN "noisy" ELSE "ramp"

\* the body of TP3 after the originals are read, statement by statement:
\* an out-of-range write with its read-back, an in-range write with its
\* read-back, a restoring write, the stats read and the stats write
TP3_Steps(orig) ==
  << [kind |-> "invalid", attr |-> "sampling_ms", value |-> SAMPLING_MS_MIN - 1],
     [kind |-> "invalid", attr |-> "sampling_ms", value |-> SAMPLING_MS_MAX + 1],
     [kind |-> "valid", attr |-> "sampling_ms", value |-> SAMPLING_MS_MIN],
     [kind |-> "valid", attr |-> "sampling_ms", value |-> SAMPLING_MS_MAX],
     [kind |-> "restore", attr |-> "sampling_ms", value |-> orig.sampling_ms[1]],
     [kind |-> "invalid", attr |-> "threshold_mc", value |-> THRESHOLD_MC_MIN - 1],
     [kind |-> "invalid", attr |-> "threshold_mc", value |-> THRESHOLD_MC_MAX + 1],
     [kind |-> "valid", attr |-> "threshold_mc", value |-> THRESHOLD_MC_MIN],
     [kind |-> "valid", attr |-> "threshold_mc", value |-> THRESHOLD_MC_MAX],
     [kind |-> "restore", attr |-> "threshold_mc", value |-> orig.threshold_mc[1]],
     [kind |-> "invalid", attr |-> "mode", value |-> "invalid_mode"],
     [kind |-> "valid", attr |-> "mode", value |-> valid_mode(orig.mode[1])],
     [kind |-> "restore", attr |-> "mode", value |-> orig.mode[1]],
     [kind |-> "stats_read", attr |-> "stats", value |-> 0],
     [kind |-> "stats_write", attr |-> "stats", value |-> 0] >>

TP3_NumSteps == 15

\* what a sysfs store can do with a written value: take it, refuse it, or
\* report success and keep the old value
StoreOutcomes == {"applied", "rejected", "ignored"}

TP3_GetOriginals ==
  /\ pc = "tp3_get"
  /\ \E oks \in [Attrs -> BOOLEAN] :
       /\ EnvN(Cardinality({a \in Attrs : ~oks[a]}))
       /\ original' = [a \in Attrs |-> get_config_value(cfg, a, oks[a])]
       /\ IF \A a \in Attrs : oks[a]
            THEN /\ pc' = "tp3_step"
                 /\ ret_pending' = ret_pending
            ELSE /\ pc' = "tp3_finally"
                 /\ ret_pending' = Some(FALSE)
  /\ cnt' = 1
  /\ aux' = 1
  /\ cfg_touched' = TRUE
  /\ UNCHANGED << envVars, obsVars, cfg, orchVars, passed, fd, poller, tp4Vars,
                  readerVars, opened, histVars, dirtied, consec >>

TP3_Advance(n) == IF n < TP3_NumSteps THEN "tp3_step" ELSE "tp3_finally"

\* the check of an out-of-range write without the read-back
InvalidWriteOk_WriteOnly(wrote, current, orig) == ~wrote

\* a write of min-1, max+1 or "invalid_mode": both a write reported as
\* successful and a read-back different from the original fail the case
InvalidWriteOk(wrote, current, orig) == ~wrote /\ current = orig

TP3_InvalidWrite ==
  /\ pc = "tp3_step"
  /\ TP3_Steps(original)[cnt].kind = "invalid"
  /\ LET st == TP3_Steps(original)[cnt] IN
     \E o \in StoreOutcomes, rd \in BOOLEAN :
       /\ EnvN((IF o = "rejected" THEN 0 ELSE 1) + (IF rd THEN 0 ELSE 1))
       /\ cfg' = set_config_value(cfg, st.attr, st.value, o = "applied")
       /\ changed' = AfterWrite(changed, st.attr, o = "applied")
       /\ dirtied' = AfterWrite(dirtied, st.attr, o = "applied")
       /\ passed' = (passed /\ InvalidWriteOk(o # "rejected",
                                   get_config_value(cfg', st.attr, rd),
                                   original[st.attr]))
       /\ obs' = obs
            \cup Seen(o # "rejected", "invalid_write_accepted", st.attr, cnt)
            \cup Seen(get_config_value(cfg', st.attr, rd) # Some(cfg[st.attr]),
                      "invalid_write_changed_value", st.attr, cnt)
            \cup Seen(get_config_value(cfg', st.attr, rd) # original[st.attr],
                      "invalid_readback_differs", st.attr, cnt)
  /\ cnt' = cnt + 1
  /\ pc' = TP3_Advance(cnt)
  /\ UNCHANGED << envVars, clearing_reads, sideVars, orchVars, original, ret_pending, fd, poller, aux, consec,
                  tp4Vars, readerVars, opened, cfg_touched, entry,
                  restore_rejected >>

\* the check of an in-range write without the read-back
ValidWriteOk_NoReadback(wrote, current, value) == wrote

\* a write of exactly min, max or a valid mode: it must be reported as
\* successful and read back as written
ValidWriteOk(wrote, current, value) == wrote /\ current = Some(value)

TP3_ValidWrite ==
  /\ pc = "tp3_step"
  /\ TP3_Steps(original)[cnt].kind = "valid"
  /\ LET st == TP3_Steps(original)[cnt] IN
     \E o \in StoreOutcomes, rd \in BOOLEAN :
       /\ EnvN((IF o = "applied" THEN 0 ELSE 1) + (IF rd THEN 0 ELSE 1))
       /\ cfg' = set_config_value(cfg, st.attr, st.value, o = "applied")
       /\ changed' = AfterWrite(changed, st.attr, o = "applied")
       /\ dirtied' = AfterWrite(dirtied, st.attr, o = "applied")
       /\ passed' = (passed /\ ValidWriteOk(o # "rejected",
                                   get_config_value(cfg', st.attr, rd), st.value))
       /\ obs' = obs
            \cup Seen(o = "rejected", "valid_write_rejected", st.attr, cnt)
            \cup Seen(get_config_value(cfg', st.attr, rd) # Some(st.value),
                      "valid_readback_mismatch", st.attr, cnt)
  /\ cnt' = cnt + 1
  /\ pc' = TP3_Advance(cnt)
  /\ UNCHANGED << envVars, clearing_reads, sideVars, orchVars, original, ret_pending, fd, poller, aux, consec,
                  tp4Vars, readerVars, opened, cfg_touched, entry,
                  restore_rejected >>

\* "Restore original ..." inside the try block: a failure fails the case
TP3_Restore ==
  /\ pc = "tp3_step"
  /\ TP3_Steps(original)[cnt].kind = "restore"
  /\ LET st == TP3_Steps(original)[cnt] IN
     \E ok \in BOOLEAN :
       /\ Env(ok)
       /\ cfg' = set_config_value(cfg, st.attr, st.value, ok)
       /\ restore_rejected' = RejectedAfterRestore(restore_rejected, st.attr, ok)
       /\ changed' = AfterRestore(changed, st.attr)
       /\ passed' = (passed /\ ok)
       /\ obs' = obs \cup Seen(~ok, "restore_rejected", st.attr, cnt)
  /\ cnt' = cnt + 1
  /\ pc' = TP3_Advance(cnt)
  /\ UNCHANGED << envVars, clearing_reads, sideVars, orchVars, original, ret_pending, fd, poller, aux, consec,
                  tp4Vars, readerVars, opened, cfg_touched, entry, dirtied >>

\* conf.get_stats(): missing, without '=', or not parseable fails the case
TP3_StatsRead ==
  /\ pc = "tp3_step"
  /\ TP3_Steps(original)[cnt].kind = "stats_read"
  /\ \E s \in StatsFirst :
       /\ Env(s.kind = "ok")
       /\ passed' = (passed /\ parse_stats_updates(s) >= 0)
       /\ obs' = obs \cup Seen(s.kind # "ok", "stats_unreadable", "stats", cnt)
  /\ cnt' = cnt + 1
  /\ pc' = TP3_Advance(cnt)
  /\ UNCHANGED << envVars, clearing_reads, sideVars, cfg, orchVars, original, ret_pending, fd, poller,
                  aux, consec, tp4Vars, readerVars, opened, cfg_touched, histVars, dirtied >>

\* a stats write whose result is not looked at
StatsWriteOk_Any(wrote) == TRUE

\* "if conf.set_config_value(conf.STATS_PATH, "test"): ... passed = False"
StatsWriteOk(wrote) == ~wrote

\* conf.set_config_value(STATS_PATH, "test") must be refused
TP3_StatsWrite ==
  /\ pc = "tp3_step"
  /\ TP3_Steps(original)[cnt].kind = "stats_write"
  /\ \E wrote \in BOOLEAN :
       /\ Env(~wrote)
       /\ passed' = (passed /\ StatsWriteOk(wrote))
       /\ obs' = obs \cup Seen(wrote, "stats_write_accepted", "stats", cnt)
                     \cup Seen(~wrote, "stats_write_rejected", "stats", cnt)
  /\ cnt' = cnt + 1
  /\ pc' = TP3_Advance(cnt)
  /\ UNCHANGED << envVars, clearing_reads, sideVars, cfg, orchVars, original, ret_pending, fd, poller,
                  aux, consec, tp4Vars, readerVars, opened, cfg_touched, histVars, dirtied >>

\* the finally block's test for one attribute: read it, and write the
\* original back when one was captured and the value read differs from it
NeedsRestore(orig, current) == orig # None /\ current # orig

FinallyOrder == << "sampling_ms", "threshold_mc", "mode" >>

\* the finally block, one attribute (FinallyOrder[aux]) per step; the last
\* step returns passed
TP3_Finally ==
  /\ pc = "tp3_finally"
  /\ LET a == FinallyOrder[aux] IN
     \E rd \in BOOLEAN :
       IF NeedsRestore(original[a], get_config_value(cfg, a, rd))
         THEN \E ok \in BOOLEAN :
                /\ EnvN((IF rd THEN 0 ELSE 1) + (IF ok THEN 0 ELSE 1))
                /\ cfg' = set_config_value(cfg, a, original[a][1], ok)
                /\ restore_rejected' = RejectedAfterRestore(restore_rejected, a, ok)
                /\ changed' = AfterRestore(changed, a)
         ELSE /\ Env(rd)
              /\ UNCHANGED << cfg, restore_rejected, changed >>
  /\ IF aux < Len(FinallyOrder)
       THEN /\ aux' = aux + 1
            /\ pc' = pc
            /\ ret' = ret
       ELSE /\ aux' = aux
            /\ pc' = "record"
            /\ ret' = FinallyReturn(ret_pending, passed)
  /\ cfg_touched' = TRUE
  /\ UNCHANGED << envVars, obsVars, idx, results, overall_passed, final_result, started,
                  escaped, prechecks, passed, original, ret_pending, fd, poller,
                  cnt, tp4Vars, readerVars, opened, entry, dirtied, consec >>

(* ------------------------ _reader_thread_func ------------------------- *)
Bump(n) == IF n < 2 THEN n + 1 ELSE n

\* an error branch of the reader: errors += 1; stop_event.set()
R_Open ==
  /\ rpc = "r_open"
  /\ \E ok \in BOOLEAN :
       /\ Env(ok)
       /\ r_calls' = IF ok THEN Append(r_calls, Call("open", 0)) ELSE r_calls
       /\ r_failures' = IF ok THEN r_failures ELSE r_failures + 1
       /\ IF ok THEN /\ r_fd' = 3
                     /\ r_poller' = TRUE
                     /\ rpc' = "r_loop"
                     /\ UNCHANGED << r_errors, stop_event >>
               ELSE /\ r_errors' = r_errors + 1
                    /\ stop_event' = TRUE
                    /\ rpc' = "r_finally"
                    /\ UNCHANGED << r_fd, r_poller >>
  /\ opened' = TRUE
  /\ UNCHANGED << envVars, obs, clearing_reads, readings, restVars, calls, cfg, pc, orchVars, localVars, reader_results,
                  writer_errors, wi, alive_at_check, r_read_count,
                  polls_after_stop, reads_after_stop, cfg_touched, histVars, dirtied >>

\* a reader loop that does not look at stop_event
ReaderContinues_Always(stop) == TRUE

\* "while not stop_event.is_set()"
ReaderContinues(stop) == ~stop

R_LoopCheck ==
  /\ rpc = "r_loop"
  /\ rpc' = IF ReaderContinues(stop_event) THEN "r_poll" ELSE "r_finally"
  /\ UNCHANGED << envVars, obsVars, cfg, faults, pc, orchVars, localVars, tp4Vars, r_fd,
                  r_poller, r_read_count, r_errors, polls_after_stop,
                  reads_after_stop, opened, cfg_touched, histVars, dirtied >>

\* the event mask poll(50) reports for the descriptor; empty: the wait timed out
ReaderMasks == SUBSET {"POLLIN", "POLLERR"}

\* "if event_mask & select.POLLIN:"
IsReadable(mask) == "POLLIN" \in mask
\* "elif event_mask & (select.POLLERR | select.POLLHUP | select.POLLNVAL):"
IsReaderError(mask) == ~IsReadable(mask) /\ "POLLERR" \in mask

\* poller.poll(50) and the branch on its event: a mask with POLLIN leads to
\* the read, otherwise a mask with an error bit ends the loop
R_Poll ==
  /\ rpc = "r_poll"
  /\ \E mask \in ReaderMasks :
       /\ Env("POLLERR" \notin mask)
       /\ r_failures' = IF "POLLERR" \in mask THEN r_failures + 1 ELSE r_failures
       /\ IF IsReaderError(mask)
            THEN /\ r_errors' = r_errors + 1
                 /\ stop_event' = TRUE
                 /\ rpc' = "r_finally"
            ELSE /\ rpc' = IF IsReadable(mask) THEN "r_read" ELSE "r_loop"
                 /\ UNCHANGED << r_errors, stop_event >>
  /\ polls_after_stop' = IF stop_event THEN Bump(polls_after_stop)
                                       ELSE polls_after_stop
  /\ UNCHANGED << envVars, obs, clearing_reads, readings, restVars, calls, r_calls, cfg, pc,
                  orchVars, localVars, reader_results, writer_errors, wi,
                  alive_at_check, r_fd, r_poller, r_read_count, reads_after_stop,
                  opened, cfg_touched, histVars, dirtied >>

\* a reader that takes a read that would block for an error
ReadIsFatal_WouldBlock(r) == r \in {"eof", "OSError", "EAGAIN"}

\* whether a result of os.pread counts as an error: BlockingIOError does not
ReadIsFatal(r) == r \in {"eof", "OSError"}

\* os.pread(fd, SAMPLE_SIZE_BYTES, 0) on the non-blocking descriptor
R_Read ==
  /\ rpc = "r_read"
  /\ \E r \in {"data", "EAGAIN", "eof", "OSError"} :
       /\ Env(r \in {"data", "EAGAIN"})
       /\ r = "data" => r_read_count < MaxReads
       /\ r_read_count' = IF r = "data" THEN r_read_count + 1 ELSE r_read_count
       /\ r_failures' = IF r \in {"data", "EAGAIN"} THEN r_failures
                                                     ELSE r_failures + 1
       /\ IF ReadIsFatal(r)
            THEN /\ r_errors' = r_errors + 1
                 /\ stop_event' = TRUE
            ELSE UNCHANGED << r_errors, stop_event >>
  /\ reads_after_stop' = IF stop_event THEN Bump(reads_after_stop)
                                       ELSE reads_after_stop
  /\ rpc' = "r_loop"
  /\ UNCHANGED << envVars, obs, clearing_reads, readings, restVars, calls, r_calls, cfg, pc,
                  orchVars, localVars, reader_results, writer_errors, wi,
                  alive_at_check, r_fd, r_poller, polls_after_stop, opened,
                  cfg_touched, histVars, dirtied >>

\* the finally block: release the descriptor, publish the counts
R_Finally ==
  /\ rpc = "r_finally"
  /\ r_fd' = -1
  /\ r_poller' = FALSE
  /\ reader_results' = [read_count |-> r_read_count, errors |-> r_errors]
  /\ rpc' = "r_done"
  /\ r_calls' = r_calls \o Release(r_fd, r_poller)
  /\ UNCHANGED << envVars, obs, clearing_reads, readings, restVars, calls, r_failures, cfg, faults, pc, orchVars, localVars, stop_event,
                  writer_errors, wi, alive_at_check, r_read_count, r_errors,
                  polls_after_stop, reads_after_stop, opened, cfg_touched,
                  histVars, dirtied >>

(* ----------------------- TP4: _test_concurrency ----------------------- *)
\* the originals are read before the try block: "return False" here is the
\* function's return value
TP4_GetOriginals ==
  /\ pc = "tp4_get"
  /\ \E oks \in [Attrs -> BOOLEAN] :
       /\ EnvN(Cardinality({a \in Attrs : ~oks[a]}))
       /\ original' = [a \in Attrs |-> get_config_value(cfg, a, oks[a])]
       /\ IF \A a \in Attrs : oks[a]
            THEN /\ pc' = "tp4_start"
                 /\ ret' = ret
            ELSE /\ pc' = "record"
                 /\ ret' = Return(FALSE)
  /\ cfg_touched' = TRUE
  /\ UNCHANGED << envVars, obsVars, cfg, idx, results, overall_passed, final_result,
                  started, escaped, prechecks, passed, ret_pending, fd, poller,
                  cnt, aux, consec, tp4Vars, readerVars, opened, histVars, dirtied >>

\* stop_event = threading.Event(); reader_thread.start()
TP4_Start ==
  /\ pc = "tp4_start"
  /\ stop_event' = FALSE
  /\ reader_results' = [read_count |-> 0, errors |-> 0]
  /\ writer_errors' = 0
  /\ wi' = 0
  /\ alive_at_check' = FALSE
  /\ rpc' = "r_open"
  /\ r_fd' = -1
  /\ r_poller' = FALSE
  /\ r_read_count' = 0
  /\ r_errors' = 0
  /\ polls_after_stop' = 0
  /\ reads_after_stop' = 0
  /\ pc' = "tp4_loop"
  /\ r_calls' = << >>
  /\ r_failures' = 0
  /\ calls' = Append(calls, Call("start", 0))
  /\ UNCHANGED << envVars, obs, clearing_reads, readings, restVars, cfg, faults, orchVars, localVars, opened,
                  cfg_touched, histVars, dirtied >>

\* the head of the writer loop: the duration check, then the stop_event check
TP4_LoopHead ==
  /\ pc = "tp4_loop"
  /\ \E elapsed \in BOOLEAN :
       /\ wi >= MaxIter => elapsed
       /\ pc' = IF elapsed \/ stop_event THEN "tp4_stop" ELSE "tp4_write"
       /\ obs' = obs \cup Seen(elapsed, "writer_loop_ended", "duration", 0)
                     \cup Seen(~elapsed /\ stop_event, "writer_loop_ended",
                              "stop_event", 0)
  /\ UNCHANGED << envVars, clearing_reads, sideVars, cfg, faults, orchVars, localVars, tp4Vars,
                  readerVars, opened, cfg_touched, histVars, dirtied >>

\* a threshold that grows with i without wrapping around
WriterValue_NoWrap(attr, i) ==
  CASE attr = "sampling_ms"  -> SAMPLING_MS_MIN + (i % 10) * 10
    [] attr = "threshold_mc" -> i * 1000 + THRESHOLD_MC_MIN
    [] attr = "mode"         -> << "normal", "noisy", "ramp" >>[(i % 3) + 1]

\* the values of iteration i of the writer loop
modes == << "normal", "noisy", "ramp" >>
WriterValue(attr, i) ==
  CASE attr = "sampling_ms"  -> SAMPLING_MS_MIN + (i % 10) * 10
    [] attr = "threshold_mc" ->
         ((i * 1000) % (THRESHOLD_MC_MAX - THRESHOLD_MC_MIN)) + THRESHOLD_MC_MIN
    [] attr = "mode"         -> modes[(i % Len(modes)) + 1]

\* one iteration: three writes, each failure counted
TP4_Write ==
  /\ pc = "tp4_write"
  /\ \E oks \in [Attrs -> BOOLEAN] :
       /\ EnvN(Cardinality({a \in Attrs : ~oks[a]}))
       /\ cfg' = [a \in Attrs |-> IF oks[a] THEN WriterValue(a, wi) ELSE cfg[a]]
       /\ changed' = changed \cup {a \in Attrs : oks[a]}
       /\ dirtied' = dirtied \cup {a \in Attrs : oks[a]}
       /\ writer_errors' = writer_errors + Cardinality({a \in Attrs : ~oks[a]})
  /\ wi' = wi + 1
  /\ pc' = "tp4_loop"
  /\ cfg_touched' = TRUE
  /\ calls' = Append(calls, Call("write", wi))
  /\ UNCHANGED << envVars, obs, clearing_reads, readings, restVars, rsideVars, orchVars, localVars, stop_event, reader_results,
                  alive_at_check, readerVars, opened, entry, restore_rejected >>

TP4_Stop ==
  /\ pc = "tp4_stop"
  /\ stop_event' = TRUE
  /\ pc' = "tp4_join"
  /\ calls' = Append(calls, Call("stop_event.set", 0))
  /\ UNCHANGED << envVars, obs, clearing_reads, readings, restVars, rsideVars, cfg, faults, orchVars, localVars, reader_results,
                  writer_errors, wi, alive_at_check, readerVars, opened,
                  cfg_touched, histVars, dirtied >>

\* a second wait as long as the first
TP4_JoinTimeout_Same(p) == TP4_JOIN_TIMEOUT_S

\* the timeout of the join at position p
TP4_JoinTimeout(p) ==
  IF p = "tp4_join" THEN TP4_JOIN_TIMEOUT_S ELSE TP4_FINAL_JOIN_TIMEOUT_S

\* reader_thread.join(timeout): returns when the reader has ended, or when the
\* timeout expires first
TP4_Join ==
  /\ pc \in {"tp4_join", "tp4_join_last"}
  /\ Env(rpc = "r_done")
  /\ pc' = IF pc = "tp4_join" THEN "tp4_check" ELSE "tp4_restore"
  /\ calls' = Append(calls, Call("join", TP4_JoinTimeout(pc)))
  /\ UNCHANGED << envVars, obs, clearing_reads, readings, restVars, rsideVars, cfg, orchVars, localVars, tp4Vars, readerVars,
                  opened, cfg_touched, histVars, dirtied >>

\* the checks without the one of writer_errors
TP4Verdict_NoWriter(p, alive, reader_errors, w_errors) ==
  p /\ ~alive /\ ~(reader_errors > 0)

\* the checks without the one of the reader's error count
TP4Verdict_NoReader(p, alive, reader_errors, w_errors) ==
  p /\ ~alive /\ ~(w_errors > 0)

\* the three checks after the join
TP4Verdict(p, alive, reader_errors, w_errors) ==
  p /\ ~alive /\ ~(reader_errors > 0) /\ ~(w_errors > 0)

TP4_Check ==
  /\ pc = "tp4_check"
  /\ alive_at_check' = (rpc # "r_done")
  /\ passed' = TP4Verdict(passed, rpc # "r_done", reader_results.errors,
                          writer_errors)
  /\ pc' = "tp4_finally"
  /\ UNCHANGED << envVars, obsVars, cfg, faults, orchVars, original, ret_pending, fd,
                  poller, cnt, aux, consec, stop_event, reader_results, writer_errors,
                  wi, readerVars, opened, cfg_touched, histVars, dirtied >>

\* finally: set stop_event if it is not set, join once more if the reader
\* is alive
TP4_Finally ==
  /\ pc = "tp4_finally"
  /\ stop_event' = TRUE
  /\ pc' = IF rpc # "r_done" THEN "tp4_join_last" ELSE "tp4_restore"
  /\ calls' = IF stop_event THEN calls
                             ELSE Append(calls, Call("stop_event.set", 0))
  /\ UNCHANGED << envVars, obs, clearing_reads, readings, restVars, rsideVars, cfg, faults, orchVars, localVars, reader_results,
                  writer_errors, wi, alive_at_check, readerVars, opened,
                  cfg_touched, histVars, dirtied >>

\* the three restoring writes, their results not looked at, and the return
TP4_Restore ==
  /\ pc = "tp4_restore"
  /\ \E oks \in [Attrs -> BOOLEAN] :
       /\ EnvN(Cardinality({a \in Attrs : ~oks[a]}))
       /\ cfg' = [a \in Attrs |->
                    IF RestoreGuard(original[a]) /\ oks[a]
                      THEN original[a][1] ELSE cfg[a]]
       /\ restore_rejected' = {a \in Attrs : ~oks[a]}
  /\ changed' = {a \in changed : ~RestoreGuard(original[a])}
  /\ ret' = FinallyReturn(ret_pending, passed)
  /\ pc' = "record"
  /\ cfg_touched' = TRUE
  /\ calls' = Append(calls, Call("restore", 0))
  /\ UNCHANGED << envVars, obs, clearing_reads, readings, restVars, rsideVars, idx, results, overall_passed, final_result, started,
                  escaped, prechecks, localVars, tp4Vars, readerVars, opened,
                  entry, dirtied >>

(* ------------------- TP5: _test_api_contract_offset ------------------- *)
\* the except OSError branch: EINVAL and ESPIPE are accepted
AcceptedErrno(e) == e \in {"EINVAL", "ESPIPE"}
Errnos == {"EINVAL", "ESPIPE", "EIO"}

\* os.open; an OSError is handled by the except branch at line 596
TP5_Open ==
  /\ pc = "tp5_open"
  /\ \E r \in {"ok"} \cup Errnos :
       /\ Env(r = "ok")
       /\ calls' = IF r = "ok" THEN Append(calls, Call("open", 0)) ELSE calls
       /\ IF r = "ok" THEN /\ fd' = 3
                           /\ passed' = passed
                           /\ pc' = "tp5_pread"
                     ELSE /\ fd' = fd
                          /\ passed' = AcceptedErrno(r)
                          /\ pc' = "tp5_finally"
       /\ obs' = obs \cup {Obs("open", r, 0)}
  /\ opened' = TRUE
  /\ UNCHANGED << envVars, clearing_reads, readings, restVars, rsideVars, cfg, orchVars, original, ret_pending, poller, cnt,
                  aux, consec, tp4Vars, readerVars, cfg_touched, histVars, dirtied >>

\* os.pread(fd, SAMPLE_SIZE_BYTES, 1)
TP5_Pread ==
  /\ pc = "tp5_pread"
  /\ \E r \in {"eof", "data"} \cup Errnos :
       /\ Env(r = "eof")
       /\ passed' = IF r \in Errnos THEN AcceptedErrno(r) ELSE r = "eof"
       /\ obs' = obs \cup {Obs("pread", r, 1)}
  /\ pc' = "tp5_finally"
  /\ UNCHANGED << envVars, clearing_reads, sideVars, cfg, orchVars, original, ret_pending, fd, poller,
                  cnt, aux, consec, tp4Vars, readerVars, opened, cfg_touched, histVars, dirtied >>

TP5_Finally ==
  /\ pc = "tp5_finally"
  /\ ret' = FinallyReturn(ret_pending, passed)
  /\ pc' = "record"
  /\ calls' = calls \o Release(fd, poller)
  /\ UNCHANGED << envVars, obs, clearing_reads, readings, restVars, rsideVars, cfg, faults, idx, results, overall_passed,
                  final_result, started, escaped, prechecks, localVars, tp4Vars,
                  readerVars, opened, cfg_touched, histVars, dirtied >>

(* ---------------------- TP6: _test_mode_behavior ---------------------- *)
TP6_GetOriginals ==
  /\ pc = "tp6_get"
  /\ \E oks \in [{"mode", "sampling_ms"} -> BOOLEAN] :
       /\ EnvN(Cardinality({a \in DOMAIN oks : ~oks[a]}))
       /\ original' = [a \in Attrs |->
                         IF a \in DOMAIN oks
                           THEN get_config_value(cfg, a, oks[a]) ELSE None]
       /\ IF \A a \in DOMAIN oks : oks[a]
            THEN /\ pc' = "tp6_ramp_mode"
                 /\ ret_pending' = ret_pending
            ELSE /\ pc' = "tp6_finally"
                 /\ ret_pending' = Some(FALSE)
  /\ cfg_touched' = TRUE
  /\ UNCHANGED << envVars, obsVars, cfg, orchVars, passed, fd, poller, cnt, aux, consec,
                  tp4Vars, readerVars, opened, histVars, dirtied >>

\* the two sub-checks run the same statements; the position tells them apart
TP6_Sub == IF pc \in {"tp6_ramp_mode", "tp6_ramp_sampling", "tp6_ramp_open",
                      "tp6_ramp_poll", "tp6_ramp_read", "tp6_ramp_close"}
             THEN "ramp" ELSE "noisy"
TP6_Pc(sub, step) ==
  CASE sub = "ramp" /\ step = "mode"      -> "tp6_ramp_mode"
    [] sub = "ramp" /\ step = "sampling"  -> "tp6_ramp_sampling"
    [] sub = "ramp" /\ step = "open"      -> "tp6_ramp_open"
    [] sub = "ramp" /\ step = "poll"      -> "tp6_ramp_poll"
    [] sub = "ramp" /\ step = "read"      -> "tp6_ramp_read"
    [] sub = "ramp" /\ step = "close"     -> "tp6_ramp_close"
    [] sub = "noisy" /\ step = "mode"     -> "tp6_noisy_mode"
    [] sub = "noisy" /\ step = "sampling" -> "tp6_noisy_sampling"
    [] sub = "noisy" /\ step = "open"     -> "tp6_noisy_open"
    [] sub = "noisy" /\ step = "poll"     -> "tp6_noisy_poll"
    [] sub = "noisy" /\ step = "read"     -> "tp6_noisy_read"
    [] sub = "noisy" /\ step = "close"    -> "tp6_noisy_close"

\* what makes a sub-check set ramp_ok / noisy_ok to False: a rejected write or
\* a failed open (the except branch), a wait without a sample, a sample that
\* could not be read, a sample the check rejects
TP6_Failures == {"setup_failed", "timeout", "read_failed", "sample_rejected"}

\* ramp_ok / noisy_ok as the observations so far determine them
sub_ok(o, sub) == ~ \E e \in o : e.where = sub /\ e.what \in TP6_Failures

\* conf.set_mode("ramp") / conf.set_mode("noisy"); a failure raises ValueError,
\* which the sub-check's except branch turns into ramp_ok / noisy_ok = False
TP6_SetMode ==
  /\ pc \in {"tp6_ramp_mode", "tp6_noisy_mode"}
  /\ \E ok \in BOOLEAN :
       /\ Env(ok)
       /\ cfg' = set_config_value(cfg, "mode", TP6_Sub, ok)
       /\ changed' = AfterWrite(changed, "mode", ok)
       /\ dirtied' = AfterWrite(dirtied, "mode", ok)
       /\ passed' = (passed /\ ok)
       /\ obs' = obs \cup Seen(~ok, "setup_failed", TP6_Sub, 0)
       /\ pc' = TP6_Pc(TP6_Sub, IF ok THEN "sampling" ELSE "close")
  /\ cfg_touched' = TRUE
  /\ UNCHANGED << envVars, clearing_reads, sideVars, orchVars, original,
                  ret_pending, fd, poller, cnt, aux, consec, tp4Vars, readerVars,
                  opened, entry, restore_rejected >>

TP6_SetSampling ==
  /\ pc \in {"tp6_ramp_sampling", "tp6_noisy_sampling"}
  /\ \E ok \in BOOLEAN :
       /\ Env(ok)
       /\ cfg' = set_config_value(cfg, "sampling_ms", TP1_SAMPLING_MS_FAST, ok)
       /\ changed' = AfterWrite(changed, "sampling_ms", ok)
       /\ dirtied' = AfterWrite(dirtied, "sampling_ms", ok)
       /\ passed' = (passed /\ ok)
       /\ obs' = obs \cup Seen(~ok, "setup_failed", TP6_Sub, 0)
       /\ pc' = TP6_Pc(TP6_Sub, IF ok THEN "open" ELSE "close")
  /\ cfg_touched' = TRUE
  /\ UNCHANGED << envVars, clearing_reads, sideVars, orchVars, original,
                  ret_pending, fd, poller, cnt, aux, consec, tp4Vars, readerVars,
                  opened, entry, restore_rejected >>

\* last_temp_mc = -float('inf') is the reading -1000000
TP6_Open ==
  /\ pc \in {"tp6_ramp_open", "tp6_noisy_open"}
  /\ \E ok \in BOOLEAN :
       /\ Env(ok)
       /\ obs' = obs \cup Seen(~ok, "setup_failed", TP6_Sub, 0)
       /\ calls' = IF ok THEN Append(calls, Call("open", 0)) ELSE calls
       /\ IF ok THEN /\ fd' = 3
                     /\ poller' = TRUE
                     /\ passed' = passed
                     /\ pc' = TP6_Pc(TP6_Sub, "poll")
               ELSE /\ fd' = fd
                    /\ poller' = poller
                    /\ passed' = FALSE
                    /\ pc' = TP6_Pc(TP6_Sub, "close")
  /\ opened' = TRUE
  /\ cnt' = 0
  /\ aux' = -1000000
  /\ consec' = 0
  /\ UNCHANGED << envVars, clearing_reads, readings, restVars, rsideVars, cfg, orchVars, original,
                  ret_pending, tp4Vars, readerVars, cfg_touched, histVars, dirtied >>

\* the timeout of one wait for a sample, in milliseconds
TP6_PollTimeout == TP1_SAMPLING_MS_FAST * 3

\* poller.poll(TP1_SAMPLING_MS_FAST * 3)
TP6_Poll ==
  /\ pc \in {"tp6_ramp_poll", "tp6_noisy_poll"}
  /\ \E ready \in BOOLEAN :
       /\ Env(ready)
       /\ passed' = (passed /\ ready)
       /\ obs' = obs \cup {Obs("wait", TP6_Sub, TP6_PollTimeout)}
                     \cup Seen(~ready, "timeout", TP6_Sub, 0)
       /\ pc' = TP6_Pc(TP6_Sub, IF ready THEN "read" ELSE "close")
  /\ UNCHANGED << envVars, clearing_reads, sideVars, cfg, orchVars, original,
                  ret_pending, fd, poller, cnt, aux, consec, tp4Vars, readerVars,
                  opened, cfg_touched, histVars, dirtied >>

\* the readings a device in ramp mode delivers after the reading last: a step
\* of 100 up (from 99900, the wrap to 0) is the nominal one
RampNominal(last) == IF last < 0 THEN 99700
                     ELSE IF last + 100 >= 100000 THEN 0 ELSE last + 100
RampReadings(last) ==
  IF last < 0 THEN {99700, 500}
  ELSE {RampNominal(last), last, last - 100}

\* a ramp check that knows no wrap-around
RampSampleOk_NoWrap(samples_read, last, current) ==
  samples_read > 0 => ~(current <= last)

\* a ramp check that lets a repeated reading pass
RampSampleOk_NonDecreasing(samples_read, last, current) ==
  samples_read > 0 =>
    ((last > 99000 /\ current < 1000) \/ ~(current < last))

\* the check of one ramp sample against the previous one
RampSampleOk(samples_read, last, current) ==
  samples_read > 0 =>
    ((last > 99000 /\ current < 1000) \/ ~(current <= last))

\* the readings of a device in noisy mode: the nominal one differs from last
NoisyNominal(last) == IF last = 25000 THEN 25100 ELSE 25000
NoisyReadings(last) == {25000, 25100}

\* consecutive_equal_count after one noisy sample
NoisyCount(samples_read, last, current, count) ==
  IF samples_read > 0
    THEN IF current = last THEN count + 1 ELSE 0
    ELSE count

\* a noisy check that already rejects the second of two equal readings
NoisySampleOk_Pairs(samples_read, count) ==
  samples_read > 0 => ~(count >= TP6_NOISY_MAX_CONSECUTIVE - 1)

NoisySampleOk(samples_read, count) ==
  samples_read > 0 => ~(count >= TP6_NOISY_MAX_CONSECUTIVE)

\* the latest readings once t has been delivered: as many as the longest run
\* of equal readings the noisy check reports ("Got {MAX + 1} consecutive")
Latest(seq, t) ==
  IF Len(seq) < TP6_NOISY_MAX_CONSECUTIVE + 1
    THEN Append(seq, t) ELSE Append(Tail(seq), t)

TP6_Samples(sub) == IF sub = "ramp" THEN TP6_RAMP_SAMPLES ELSE TP6_NOISY_SAMPLES

\* _read_sample(fd) and the check of the reading
TP6_Read ==
  /\ pc \in {"tp6_ramp_read", "tp6_noisy_read"}
  /\ \E parsed \in BOOLEAN :
       IF ~parsed
         THEN /\ Env(FALSE)
              /\ passed' = FALSE
              /\ obs' = obs \cup {Obs("read_failed", TP6_Sub, 0)}
              /\ pc' = TP6_Pc(TP6_Sub, "close")
              /\ UNCHANGED << cnt, aux, consec, readings >>
         ELSE \E t \in (IF TP6_Sub = "ramp" THEN RampReadings(aux)
                                            ELSE NoisyReadings(aux)) :
                LET nominal == t = (IF TP6_Sub = "ramp"
                                      THEN RampNominal(aux)
                                      ELSE NoisyNominal(aux))
                    count   == IF TP6_Sub = "ramp" THEN 0
                               ELSE NoisyCount(cnt, aux, t, consec)
                    ok      == IF TP6_Sub = "ramp"
                                 THEN RampSampleOk(cnt, aux, t)
                                 ELSE NoisySampleOk(cnt, count)
                IN /\ Env(nominal)
                   /\ passed' = (passed /\ ok)
                   /\ readings' = Latest(readings, t)
                   /\ obs' = obs \cup Seen(~ok, "sample_rejected", TP6_Sub, 0)
                   /\ IF ok
                        THEN /\ aux' = t
                             /\ consec' = count
                             /\ cnt' = cnt + 1
                             /\ pc' = TP6_Pc(TP6_Sub,
                                             IF cnt + 1 < TP6_Samples(TP6_Sub)
                                               THEN "poll" ELSE "close")
                        ELSE /\ aux' = aux
                             /\ consec' = count
                             /\ cnt' = cnt
                             /\ pc' = TP6_Pc(TP6_Sub, "close")
  /\ UNCHANGED << envVars, clearing_reads, restVars, calls, rsideVars, cfg, orchVars,
                  original, ret_pending, fd, poller, tp4Vars, readerVars, opened,
                  cfg_touched, histVars, dirtied >>

\* the sub-check's finally block and "if not ramp_ok: passed = False"; the
\* noisy sub-check follows the ramp one whatever the ramp one found. Of what
\* the sub-check observed, ramp_ok / noisy_ok is all that is kept
TP6_Close ==
  /\ pc \in {"tp6_ramp_close", "tp6_noisy_close"}
  /\ fd' = -1
  /\ poller' = FALSE
  /\ cnt' = 0
  /\ aux' = 0
  /\ consec' = 0
  /\ readings' = << >>
  /\ obs' = {e \in obs : e.where # TP6_Sub}
               \cup {Obs(IF sub_ok(obs, TP6_Sub) THEN "sub_ok" ELSE "sub_failed",
                         TP6_Sub, 0)}
  /\ pc' = IF TP6_Sub = "ramp" THEN "tp6_noisy_mode" ELSE "tp6_finally"
  /\ calls' = calls \o Release(fd, poller)
  /\ UNCHANGED << envVars, clearing_reads, restVars, rsideVars, cfg, faults, orchVars, passed, original,
                  ret_pending, tp4Vars, readerVars, opened, cfg_touched,
                  histVars, dirtied >>

\* finally: restore the mode, then the sampling period, results not looked at
TP6_Finally ==
  /\ pc = "tp6_finally"
  /\ \E oks \in [{"mode", "sampling_ms"} -> BOOLEAN] :
       LET written == {a \in DOMAIN oks : RestoreGuard(original[a])} IN
       /\ \A a \in DOMAIN oks : a \notin written => oks[a]
       /\ EnvN(Cardinality({a \in written : ~oks[a]}))
       /\ cfg' = [a \in Attrs |->
                    IF a \in written /\ oks[a] THEN original[a][1] ELSE cfg[a]]
       /\ restore_rejected' = {a \in written : ~oks[a]}
       /\ changed' = changed \ written
  /\ ret' = FinallyReturn(ret_pending, passed)
  /\ pc' = "record"
  /\ cfg_touched' = TRUE
  /\ UNCHANGED << envVars, obsVars, idx, results, overall_passed, final_result, started,
                  escaped, prechecks, localVars, tp4Vars, readerVars, opened,
                  entry, dirtied >>

(* ------------------- the decoding helpers on their own ----------------- *)
\* a text is a sequence of characters; a name or another piece that is never
\* split counts as one character
Counters == {<< "updates" >>, << "alerts" >>, << "errors" >>}
Whitespace == {" ", "\n"}
Digits == ("0" :> 0) @@ ("1" :> 1) @@ ("5" :> 5) @@ ("7" :> 7)

\* str.split(sep): the pieces between the occurrences of sep, empty ones too
RECURSIVE SplitOn(_, _)
SplitOn(text, seps) ==
  IF text = << >> THEN << << >> >>
  ELSE LET rest == SplitOn(Tail(text), seps)
       IN  IF Head(text) \in seps
             THEN << << >> >> \o rest
             ELSE << << Head(text) >> \o Head(rest) >> \o Tail(rest)

\* str.split(): the runs of characters between whitespace
split(text) == SelectSeq(SplitOn(text, Whitespace), LAMBDA w : w # << >>)

\* the number a run of decimal digits stands for
RECURSIVE Decimal(_)
Decimal(ds) ==
  IF ds = << >> THEN 0
  ELSE Decimal(SubSeq(ds, 1, Len(ds) - 1)) * 10 + Digits[ds[Len(ds)]]

\* int(value): an optional sign and at least one digit, None for ValueError
int(value) ==
  LET signed == value # << >> /\ Head(value) \in {"-", "+"}
      ds     == IF signed THEN Tail(value) ELSE value
  IN  IF ds = << >> \/ \E i \in 1..Len(ds) : ds[i] \notin DOMAIN Digits
        THEN None
        ELSE Some(IF signed /\ Head(value) = "-" THEN 0 - Decimal(ds)
                                                 ELSE Decimal(ds))

\* stats = {'updates': -1, 'alerts': -1, 'errors': -1}
NoStats == [c \in Counters |-> -1]

\* an except branch that returns what was parsed before the failure
OnParseError_Partial(partial) == partial

\* the except branch of _parse_stats: the dict is set to -1 throughout
OnParseError(partial) == NoStats

\* the for loop of _parse_stats over parts, begun with the dict d:
\* "key, value = part.split('=')" fails unless there are two pieces, int()
\* fails unless value is a number, stats[key] = ... adds or replaces an entry
RECURSIVE ParseParts(_, _)
ParseParts(parts, d) ==
  IF parts = << >> THEN d
  ELSE LET pieces == SplitOn(Head(parts), {"="})
       IN  IF Len(pieces) # 2 \/ int(pieces[2]) = None
             THEN OnParseError(d)
             ELSE ParseParts(Tail(parts),
                             (pieces[1] :> int(pieces[2])[1]) @@ d)

_parse_stats(text) ==
  IF text = None THEN NoStats ELSE ParseParts(split(text[1]), NoStats)

\* key=integer tokens with the number each stands for; the key may be one of
\* the three counters, another name or empty
WellFormed ==
  { [key |-> << "updates" >>, text |-> << "0" >>,      value |-> 0],
    [key |-> << "updates" >>, text |-> << "1", "5" >>, value |-> 15],
    [key |-> << "alerts" >>,  text |-> << "0" >>,      value |-> 0],
    [key |-> << "alerts" >>,  text |-> << "-", "7" >>, value |-> -7],
    [key |-> << "errors" >>,  text |-> << "0" >>,      value |-> 0],
    [key |-> << "errors" >>,  text |-> << "1", "5" >>, value |-> 15],
    [key |-> << "x" >>,       text |-> << "5" >>,      value |-> 5],
    [key |-> << >>,           text |-> << "1", "5" >>, value |-> 15] }
Token(w) == w.key \o << "=" >> \o w.text
WellFormedTokens == {Token(w) : w \in WellFormed}

\* tokens that are not key=integer: no number, no value, no "=", two "=",
\* a fraction
MalformedTokens ==
  { << "updates", "=", "x" >>, << "alerts", "=" >>, << "errors" >>,
    << "updates", "=", "1", "5", "=", "0" >>,
    << "errors", "=", "1", ".", "5" >> }

\* the texts given to _parse_stats: up to MaxTokens tokens, with one blank
\* between them or with more whitespace and the line end the sysfs file has
StatsParts == UNION {[1..n -> WellFormedTokens \cup MalformedTokens] : n \in 0..MaxTokens}
RECURSIVE Join(_, _)
Join(parts, padded) ==
  IF parts = << >> THEN (IF padded THEN << "\n" >> ELSE << >>)
  ELSE (IF padded THEN << " " >> ELSE << >>) \o Head(parts)
       \o (IF Len(parts) > 1 THEN << " " >> ELSE << >>)
       \o Join(Tail(parts), padded)

Call_parse_stats ==
  /\ stats = NoRet
  /\ stats' = Return(_parse_stats(stats_str))
  /\ UNCHANGED << programVars, clockVars, stats_parts, stats_str, raw_data,
                  os_error, sample, read_ret >>

\* SAMPLE_FORMAT "<QiI": little-endian without padding, then the field codes
SAMPLE_FORMAT == << "<", "Q", "i", "I" >>
\* the bytes a field code takes, and the codes of signed fields
FieldSizes == ("Q" :> 8) @@ ("i" :> 4) @@ ("I" :> 4)
SignedCodes == {"i"}

\* struct.calcsize
RECURSIVE SizeOfFields(_)
SizeOfFields(codes) ==
  IF codes = << >> THEN 0 ELSE FieldSizes[Head(codes)] + SizeOfFields(Tail(codes))
calcsize(fmt) == SizeOfFields(Tail(fmt))

\* the integer in little-endian bytes, two's complement if signed
RECURSIVE LittleEndian(_, _)
LittleEndian(bytes, signed) ==
  IF Len(bytes) = 1
    THEN (IF signed /\ bytes[1] >= 128 THEN bytes[1] - 256 ELSE bytes[1])
    ELSE Head(bytes) + 256 * LittleEndian(Tail(bytes), signed)

RECURSIVE UnpackFields(_, _)
UnpackFields(codes, data) ==
  IF codes = << >> THEN << >>
  ELSE LET n == FieldSizes[Head(codes)]
       IN  << LittleEndian(SubSeq(data, 1, n), Head(codes) \in SignedCodes) >>
           \o UnpackFields(Tail(codes), SubSeq(data, n + 1, Len(data)))

\* struct.unpack: None for struct.error, raised unless the buffer has the
\* size of the format
unpack(fmt, data) ==
  IF Len(data) # calcsize(fmt) THEN None
                               ELSE Some(UnpackFields(Tail(fmt), data))

\* a decoder that takes the first SAMPLE_SIZE_BYTES of a longer input
parse_sample_Truncating(data) ==
  IF Len(data) < SAMPLE_SIZE_BYTES THEN None
  ELSE unpack(SAMPLE_FORMAT, SubSeq(data, 1, SAMPLE_SIZE_BYTES))

\* print_samples.parse_sample: None or (timestamp_ns, temp_mc, flags)
parse_sample(data) ==
  IF Len(data) # SAMPLE_SIZE_BYTES THEN None
                                   ELSE unpack(SAMPLE_FORMAT, data)

\* _read_sample when os.pread raises OSError (err) or returns data
_read_sample(err, data) ==
  IF err THEN None
  ELSE IF data = << >> THEN None
  ELSE parse_sample(data)

\* samples as the driver writes them: timestamp_ns, temp_mc, flags
TimestampBytes == { << 0, 0, 0, 0, 0, 0, 0, 0 >>, << 64, 66, 15, 0, 0, 0, 0, 0 >> }
TempBytes == { << 168, 97, 0, 0 >>, << 24, 252, 255, 255 >>, << 0, 0, 0, 128 >> }
FlagBytes == { << 0, 0, 0, 0 >>, << 3, 0, 0, 0 >> }
Samples == {ts \o t \o f : ts \in TimestampBytes, t \in TempBytes, f \in FlagBytes}

\* the inputs of the decoder: every beginning of a sample, whole samples, a
\* sample with one more byte and two samples in a row
RawInputs ==
  {SubSeq(smp, 1, n) : smp \in Samples, n \in 0..SAMPLE_SIZE_BYTES}
    \cup {smp \o << 0 >> : smp \in Samples}
    \cup {smp \o smp : smp \in Samples}

Call_parse_sample ==
  /\ sample = NoRet
  /\ sample' = Return(parse_sample(raw_data))
  /\ UNCHANGED << programVars, clockVars, stats_parts, stats_str, stats,
                  raw_data, os_error, read_ret >>

Call_read_sample ==
  /\ read_ret = NoRet
  /\ read_ret' = Return(_read_sample(os_error, raw_data))
  /\ UNCHANGED << programVars, clockVars, stats_parts, stats_str, stats,
                  raw_data, os_error, sample >>

\* the helpers are given one input: a stats text, or what a read produced
CodecInputs ==
  {[parts |-> p, str |-> Some(Join(p, padded)), raw |-> << >>, err |-> FALSE] :
     p \in StatsParts, padded \in BOOLEAN}
    \cup {[parts |-> << >>, str |-> None, raw |-> r, err |-> e] :
            r \in RawInputs, e \in BOOLEAN}

CodecInit ==
  /\ ProgramInit
  /\ PreconditionsHold(euid, dev_exists, sysfs_exists)
  /\ cfg.mode = "normal"
  /\ \E c \in CodecInputs :
       /\ stats_parts = c.parts
       /\ stats_str = c.str
       /\ raw_data = c.raw
       /\ os_error = c.err
  /\ stats = NoRet
  /\ sample = NoRet
  /\ read_ret = NoRet

CodecNext == Call_parse_stats \/ Call_parse_sample \/ Call_read_sample

CodecSpec == CodecInit /\ [][CodecNext]_vars

(* ---------------------------- specification --------------------------- *)
Next ==
  \/ Precheck
  \/ CallTest
  \/ RecordResult
  \/ Summary
  \/ TP1_GetOriginal
  \/ TP1_SetFast
  \/ TP1_StatsInitial
  \/ TP1_StatsFinal
  \/ TP1_Open
  \/ TP1_Poll
  \/ TP1_Read
  \/ TP1_CloseCoherence
  \/ TP1_SetSlow
  \/ TP1_RestoreEarly
  \/ TP1_Finally
  \/ TP2_GetOriginal
  \/ TP2_SetThreshold
  \/ TP2_Open
  \/ TP2_LoopHead
  \/ TP2_Poll
  \/ TP2_ClearingRead
  \/ TP2_Finally
  \/ TP3_GetOriginals
  \/ TP3_InvalidWrite
  \/ TP3_ValidWrite
  \/ TP3_Restore
  \/ TP3_StatsRead
  \/ TP3_StatsWrite
  \/ TP3_Finally
  \/ TP4_GetOriginals
  \/ TP4_Start
  \/ TP4_LoopHead
  \/ TP4_Write
  \/ TP4_Stop
  \/ TP4_Join
  \/ TP4_Check
  \/ TP4_Finally
  \/ TP4_Restore
  \/ R_Open
  \/ R_LoopCheck
  \/ R_Poll
  \/ R_Read
  \/ R_Finally
  \/ TP5_Open
  \/ TP5_Pread
  \/ TP5_Finally
  \/ TP6_GetOriginals
  \/ TP6_SetMode
  \/ TP6_SetSampling
  \/ TP6_Open
  \/ TP6_Poll
  \/ TP6_Read
  \/ TP6_Close
  \/ TP6_Finally

Spec == Init /\ [][Next]_vars

\* run_all_tests with a test function taken as a call that returns True,
\* returns False or raises
OrchNext ==
  \/ Precheck
  \/ CallAnyTest
  \/ RecordResult
  \/ Summary

OrchSpec == Init /\ [][OrchNext]_vars

\* the reader thread is scheduled: a step it can take is eventually taken
ReaderStep == R_Open \/ R_LoopCheck \/ R_Poll \/ R_Read \/ R_Finally

LiveSpec == Spec /\ WF_vars(ReaderStep)

\* the main thread keeps running while it is in TP2's loop
TP2Step == TP2_LoopHead \/ TP2_Poll \/ TP2_ClearingRead

TP2LiveSpec == Spec /\ WF_vars(TP2Step)

\* TP4 about to run iteration i of its writer loop: the three test cases
\* before it have passed, the reader thread is in its loop, and the
\* iterations before i have written their values
WriterInit ==
  /\ CodecIdle
  /\ euid = 0
  /\ dev_exists = TRUE
  /\ sysfs_exists = TRUE
  /\ entry = [sampling_ms |-> 500, threshold_mc |-> 25000, mode |-> "normal"]
  /\ wi \in 0..MaxIndex
  /\ cfg = IF wi = 0 THEN entry ELSE [a \in Attrs |-> WriterValue(a, wi - 1)]
  /\ changed = IF wi = 0 THEN {} ELSE Attrs
  /\ dirtied = changed
  /\ calls = << Call("start", 0) >> \o [i \in 1..wi |-> Call("write", i - 1)]
  /\ faults = 0
  /\ pc = "tp4_write"
  /\ idx = 4
  /\ ret = NoRet
  /\ started = [i \in 1..idx |-> test_name(test_functions[i])]
  /\ results = [n \in {started[i] : i \in 1..(idx - 1)} |-> TRUE]
  /\ overall_passed = TRUE
  /\ final_result = None
  /\ passed = InitialPassed(test_functions[idx])
  /\ original = [a \in Attrs |-> Some(entry[a])]
  /\ ret_pending = None
  /\ fd = -1
  /\ poller = FALSE
  /\ cnt = 0
  /\ aux = 0
  /\ consec = 0
  /\ stop_event = FALSE
  /\ reader_results = [read_count |-> 0, errors |-> 0]
  /\ writer_errors = 0
  /\ alive_at_check = FALSE
  /\ rpc = "r_loop"
  /\ r_fd = 3
  /\ r_poller = TRUE
  /\ r_read_count = 0
  /\ r_errors = 0
  /\ escaped = {}
  /\ prechecks = 1
  /\ opened = TRUE
  /\ cfg_touched = TRUE
  /\ restore_rejected = {}
  /\ polls_after_stop = 0
  /\ reads_after_stop = 0
  /\ obs = {}
  /\ clearing_reads = 0
  /\ readings = << >>
  /\ r_calls = << Call("open", 0) >>
  /\ r_failures = 0
  /\ now = 0
  /\ remaining_ms = 0
  /\ events = {}

\* one iteration of the writer loop
WriterNext == TP4_Write

WriterSpec == WriterInit /\ [][WriterNext]_vars

(* ------------------------------ claims -------------------------------- *)
\* the caller is root and both the device node and the sysfs path exist
Preconditions == euid = 0 /\ dev_exists /\ sysfs_exists
Returned == pc = "record" /\ ret.kind = "return"
CurrentTest == test_functions[idx]

\* C1: when a test case returns, every attribute it changed has had its
\* captured value written back after the last change, and every attribute
\* whose latest restoring write was accepted holds the value it had when the
\* test case was entered.
C1_ConfigRestored ==
  Returned =>
    /\ changed = {}
    /\ \A a \in Attrs : a \notin restore_rejected => cfg[a] = entry[a]

\* TP1 returns after an early abort (a return statement inside try) having
\* changed the sampling period, with the configuration as at entry
C1_Witness ==
  /\ Returned
  /\ CurrentTest = "_test_periodic_read"
  /\ ret_pending = Some(FALSE)
  /\ "sampling_ms" \in dirtied
  /\ cfg = entry

\* C2: a test case one of whose restoring writes was rejected returns False.
C2_RestoreFailureFails ==
  (Returned /\ restore_rejected # {}) => ret.value = FALSE

\* the attributes each test case captures at its start
Captured(f) ==
  CASE f = "_test_periodic_read"       -> {"sampling_ms"}
    [] f = "_test_threshold_event"     -> {"threshold_mc"}
    [] f = "_test_sysfs_limits"        -> Attrs
    [] f = "_test_concurrency"         -> Attrs
    [] f = "_test_api_contract_offset" -> {}
    [] f = "_test_mode_behavior"       -> {"mode", "sampling_ms"}

\* C3: a test case that could not read one of the original values it
\* captures returns False.
C3_CaptureFailureFails ==
  (Returned /\ \E a \in Captured(CurrentTest) : original[a] = None)
    => ret.value = FALSE

\* C4: TP1 returns False when, having captured the original period, it
\* aborted early: the fast or slow period could not be written or a
\* statistics snapshot was unreadable.
C4_TP1AbortFails ==
  (/\ Returned
   /\ CurrentTest = "_test_periodic_read"
   /\ original.sampling_ms # None
   /\ ret_pending = Some(FALSE))
    => ret.value = FALSE

ExpectedOrder ==
  << "PERIODIC_READ", "THRESHOLD_EVENT", "SYSFS_LIMITS", "CONCURRENCY",
     "API_CONTRACT_OFFSET", "MODE_BEHAVIOR" >>

\* C5: the test cases are started in the fixed order TP1..TP6, each once and
\* only when all earlier ones have returned and been recorded; the report
\* holds one entry per test case run, six distinct entries at the end.
C5_FixedOrder ==
  /\ Len(started) <= Len(ExpectedOrder)
  /\ \A k \in 1..Len(started) : started[k] = ExpectedOrder[k]
  /\ DOMAIN results = {ExpectedOrder[k] : k \in 1..(idx - 1)}
  /\ Cardinality(DOMAIN results) = idx - 1
  /\ Len(started) = IF pc \in {"start", "loop", "done"} THEN idx - 1 ELSE idx
  /\ (pc = "done" /\ Preconditions) =>
       (Len(started) = 6 /\ Cardinality(DOMAIN results) = 6)

\* the suite has ended after running TP4 with the reader having read a sample
C5_Witness ==
  /\ pc = "done"
  /\ Len(started) = 6
  /\ Cardinality(DOMAIN results) = 6
  /\ r_read_count > 0

\* C6: whatever a test case returned or raised, its outcome is recorded (a
\* raise as a failure that clears the overall verdict), the loop moves on to
\* the next test case, which can then be called, and the suite ends only
\* when all six have been started.
C6_FaultIsolation ==
  /\ [][pc = "record" =>
          /\ pc' = "loop"
          /\ idx' = idx + 1
          /\ (ret.kind = "raise" \/ ~ret.value) =>
                (~results'[test_name(CurrentTest)] /\ ~overall_passed')]_vars
  /\ []((pc = "loop" /\ idx <= Len(test_functions)) => ENABLED CallAnyTest)
  /\ []((pc = "done" /\ Preconditions) => Len(started) = 6)

\* the first test case raised, the second returned False, and all six ran
C6_Witness ==
  /\ pc = "done"
  /\ "PERIODIC_READ" \in escaped
  /\ "THRESHOLD_EVENT" \notin escaped
  /\ ~results["THRESHOLD_EVENT"]
  /\ Len(started) = 6
  /\ results["MODE_BEHAVIOR"]

\* C7: run_all_tests returns the PASS code exactly when all six recorded
\* outcomes are passes, the FAIL code otherwise, and the two codes differ.
C7_PassIffAllPass ==
  /\ TEST_PASS_CODE # TEST_FAIL_CODE
  /\ (pc = "done" /\ Preconditions) =>
       /\ Cardinality(DOMAIN results) = 6
       /\ final_result \in {Some(TEST_PASS_CODE), Some(TEST_FAIL_CODE)}
       /\ final_result = Some(TEST_PASS_CODE) <=>
            \A n \in DOMAIN results : results[n]

\* an early failure followed by passes gives the FAIL code
C7_Witness ==
  /\ pc = "done"
  /\ final_result = Some(TEST_FAIL_CODE)
  /\ DOMAIN results # {}
  /\ \A n \in DOMAIN results : results[n] <=> n # "THRESHOLD_EVENT"

\* C8: the preconditions are evaluated once, before any test case; when one
\* fails, no test case is started, the device is not opened, no attribute is
\* read or written, and run_all_tests returns the FAIL code.
C8_PreconditionGate ==
  /\ prechecks <= 1
  /\ pc # "start" => prechecks = 1
  /\ pc = "start" => (started = << >> /\ ~opened /\ ~cfg_touched)
  /\ ~Preconditions =>
       /\ started = << >>
       /\ DOMAIN results = {}
       /\ ~opened
       /\ ~cfg_touched
       /\ pc \in {"start", "done"}
       /\ pc = "done" => final_result = Some(TEST_FAIL_CODE)

\* root, device node present, sysfs path absent: the suite has returned FAIL
C8_Witness ==
  /\ pc = "done"
  /\ euid = 0
  /\ dev_exists
  /\ ~sysfs_exists
  /\ final_result = Some(TEST_FAIL_CODE)

\* C9: TP4 returns True exactly when the reader had ended when the foreground
\* looked after its bounded join, the reader counted no fatal error and the
\* writer counted no failed write.
C9_TP4Verdict ==
  (Returned /\ CurrentTest = "_test_concurrency") =>
    (ret.value <=>
       /\ rpc = "r_done"
       /\ ~alive_at_check
       /\ r_errors = 0
       /\ writer_errors = 0)

\* TP4 returns True after the writer wrote and the reader read a sample
C9_Witness ==
  /\ Returned
  /\ CurrentTest = "_test_concurrency"
  /\ ret.value
  /\ wi > 0
  /\ r_read_count > 0

ReaderRunning == rpc \in {"r_open", "r_loop", "r_poll", "r_read", "r_finally"}

\* C10: once stop_event is set the reader begins at most one more poll and
\* at most one more read; when it has ended its descriptor is released and
\* its counts are published; and a scheduled reader eventually ends after
\* stop_event is set.
C10_ReaderStops ==
  /\ [](polls_after_stop <= 1 /\ reads_after_stop <= 1)
  /\ [](rpc = "r_done" =>
          /\ r_fd = -1
          /\ ~r_poller
          /\ reader_results = [read_count |-> r_read_count, errors |-> r_errors])
  /\ (stop_event /\ ReaderRunning) ~> (rpc = "r_done")

\* the reader ended having begun a poll and a read after stop_event was set
C10_Witness ==
  /\ rpc = "r_done"
  /\ polls_after_stop = 1
  /\ reads_after_stop = 1
  /\ r_errors = 0

\* the positions of the main thread inside _test_concurrency after the
\* reader thread was started
TP4_Running ==
  {"tp4_loop", "tp4_write", "tp4_stop", "tp4_join", "tp4_check",
   "tp4_finally", "tp4_join_last", "tp4_restore"}

\* C11: the reader thread runs only while the main thread is inside
\* _test_concurrency: it has ended when that function returns, and no other
\* test case executes while it is running.
C11_ReaderConfined == ReaderRunning => pc \in TP4_Running

\* C12: TP2 returns True exactly when two alerts were counted (which the
\* loop allows only before it has detected the timeout), no poll result
\* carrying an error bit was reported before the count of two was reached,
\* and the restoring write of the threshold succeeded.
C12_TP2Verdict ==
  (Returned /\ CurrentTest = "_test_threshold_event") =>
    (ret.value <=>
       /\ cnt >= TP2_EXPECTED_ALERTS
       /\ aux # 1
       /\ ~\E o \in obs : o.what = "device_error" /\ o.val < TP2_EXPECTED_ALERTS
       /\ "threshold_mc" \notin restore_rejected)

\* the positions of TP2 where no alert is waiting for its clearing read
TP2_Settled == {"tp2_loop", "tp2_poll", "tp2_finally", "record"}

\* C13: in TP2 every counted alert is followed by one attempted read before
\* the next loop head, the next wait and the return: there the number of
\* clearing reads equals alert_count, and right after an alert was counted
\* it is one less.
C13_AlertPairedWithRead ==
  (idx <= Len(test_functions) /\ CurrentTest = "_test_threshold_event") =>
    /\ pc \in TP2_Settled => clearing_reads = cnt
    /\ pc = "tp2_clear" => clearing_reads = cnt - 1

\* TP2 returns having counted two alerts and attempted two clearing reads
C13_Witness ==
  /\ Returned
  /\ CurrentTest = "_test_threshold_event"
  /\ cnt = TP2_EXPECTED_ALERTS
  /\ clearing_reads = TP2_EXPECTED_ALERTS

TP3Returned == Returned /\ CurrentTest = "_test_sysfs_limits"
RangeAttrs == {"sampling_ms", "threshold_mc"}
\* the steps of TP3 when the originals are the values at its entry
TP3_StepsAtEntry == TP3_Steps([a \in Attrs |-> Some(entry[a])])
\* the values written by the steps of one kind to one attribute
StepValues(kind, attr) ==
  {TP3_StepsAtEntry[i].value :
     i \in {j \in 1..TP3_NumSteps : /\ TP3_StepsAtEntry[j].kind = kind
                                    /\ TP3_StepsAtEntry[j].attr = attr}}

\* C14: TP3 passes when all that it observed, besides the refusal of the
\* stats write, is out-of-range writes to sampling_ms or threshold_mc that
\* were reported as successful while the readable value stayed as it was
\* before the write: only a write that changes the readable value fails it.
C14_InvalidWriteTolerated ==
  (/\ TP3Returned
   /\ \A a \in Attrs : original[a] # None
   /\ \A o \in obs :
        \/ o.what = "stats_write_rejected"
        \/ o.what = "invalid_write_accepted" /\ o.where \in RangeAttrs)
    => ret.value

\* C15: TP3 returns False when the value read back after a write of min-1
\* or max+1 to sampling_ms or threshold_mc differed from the original
\* captured at its start, an unreadable value included.
C15_InvalidReadbackFails ==
  TP3Returned =>
    /\ StepValues("invalid", "sampling_ms") = {99, 60001}
    /\ StepValues("invalid", "threshold_mc") = {-50001, 150001}
    /\ (\E o \in obs : /\ o.what = "invalid_readback_differs"
                        /\ o.where \in RangeAttrs)
         => ~ret.value

\* TP3 returns after the threshold could not be read back following the
\* write of max+1
C15_Witness ==
  /\ TP3Returned
  /\ Obs("invalid_readback_differs", "threshold_mc", 7) \in obs
  /\ Obs("invalid_write_accepted", "threshold_mc", 7) \notin obs
  /\ cfg.threshold_mc = entry.threshold_mc

\* C16: TP3 returns False when a write of exactly the minimum or the maximum
\* of sampling_ms (100, 60000) or threshold_mc (-50000, 150000) was rejected
\* or did not read back as the value written.
C16_ValidWriteFails ==
  TP3Returned =>
    /\ StepValues("valid", "sampling_ms") = {100, 60000}
    /\ StepValues("valid", "threshold_mc") = {-50000, 150000}
    /\ (\E o \in obs :
          /\ o.what \in {"valid_write_rejected", "valid_readback_mismatch"}
          /\ o.where \in RangeAttrs)
         => ~ret.value

\* TP3 returns after a write of the minimum sampling period was reported as
\* successful and read back as something else
C16_Witness ==
  /\ TP3Returned
  /\ Obs("valid_readback_mismatch", "sampling_ms", 3) \in obs
  /\ Obs("valid_write_rejected", "sampling_ms", 3) \notin obs

\* C17: the mode TP3 writes as valid is one of normal, noisy, ramp and is
\* not the original, whatever the original; TP3 returns False when the mode
\* read back after the write of "invalid_mode" differed from the original,
\* or when the valid write was rejected or did not read back as written.
C17_ModeCheck ==
  /\ \A m \in {"normal", "noisy", "ramp"} :
       valid_mode(m) \in {"normal", "noisy", "ramp"} /\ valid_mode(m) # m
  /\ (TP3Returned /\ \E o \in obs :
          /\ o.what \in {"invalid_readback_differs", "valid_write_rejected",
                         "valid_readback_mismatch"}
          /\ o.where = "mode")
       => ~ret.value

\* TP3, entered in mode noisy, returns after its write of ramp was rejected
C17_Witness ==
  /\ TP3Returned
  /\ original.mode = Some("noisy")
  /\ Obs("valid_write_rejected", "mode", 12) \in obs
  /\ Obs("valid_readback_mismatch", "mode", 12) \in obs

\* C18: TP3 returns False when the write to the stats attribute was reported
\* as successful; when that write was refused and nothing else was amiss,
\* TP3 returns True.
C18_StatsReadOnly ==
  TP3Returned =>
    /\ (\E o \in obs : o.what = "stats_write_accepted") => ~ret.value
    /\ (\A o \in obs : o.what = "stats_write_rejected") /\ obs # {} => ret.value

\* TP3 returns after a successful write to stats and nothing else amiss
C18_Witness ==
  /\ TP3Returned
  /\ obs = {Obs("stats_write_accepted", "stats", 15)}

TP1Returned == Returned /\ CurrentTest = "_test_periodic_read"
\* the differences of the updates counter TP1 took over its two windows
DeltasSeen == {o \in obs : o.what = "delta"}
WithinTolerance == {9, 10, 11}

\* C19: when TP1 ran to its end without an early return and its coherence
\* check read its 3 samples, it returns True exactly when the counter
\* differences of both windows are 9, 10 or 11; and a difference outside
\* that range at either rate makes TP1 return False in any case.
C19_RateWithinTolerance ==
  TP1Returned =>
    /\ (ret_pending = None /\ cnt = TP1_COHERENCE_READS) =>
         /\ {o.where : o \in DeltasSeen} = {"fast", "slow"}
         /\ ret.value <=> \A o \in DeltasSeen : o.val \in WithinTolerance
    /\ (\E o \in DeltasSeen : o.val \notin WithinTolerance) => ~ret.value

\* TP1 returns True having measured 9 updates at 100 ms and 11 at 1000 ms
C19_Witness ==
  /\ TP1Returned
  /\ ret.value
  /\ DeltasSeen = {Obs("delta", "fast", 9), Obs("delta", "slow", 11)}

\* the positions of the main thread inside _test_api_contract_offset, and
\* the one where its value has been returned
TP5_Positions == {"tp5_open", "tp5_pread", "tp5_finally", "record"}

\* C20: TP5 returns True exactly when the read at offset 1 returned no bytes
\* or failed with EINVAL or ESPIPE, and TP5 leaves every configuration
\* attribute as it found it.
C20_TP5Verdict ==
  (/\ idx <= Len(test_functions)
   /\ CurrentTest = "_test_api_contract_offset"
   /\ pc \in TP5_Positions) =>
    /\ cfg = entry /\ dirtied = {}
    /\ Returned =>
         (ret.value <=>
            \E o \in obs : /\ o.what = "pread"
                           /\ o.val = 1
                           /\ o.where \in {"eof", "EINVAL", "ESPIPE"})

(* ------------------------- TP6: the two sub-checks -------------------- *)
TP6Returned == Returned /\ CurrentTest = "_test_mode_behavior"
\* the positions of a sub-check from its first wait to its finally block
TP6_Sampling(sub) ==
  pc \in {TP6_Pc(sub, "poll"), TP6_Pc(sub, "read"), TP6_Pc(sub, "close")}
\* the sub-check has rejected a sample
Rejected(sub) == Obs("sample_rejected", sub, 0) \in obs
\* every wait of the sub-check so far brought a sample that could be read
Delivered(sub) ==
  ~ \E e \in obs : e.where = sub /\ e.what \in {"setup_failed", "timeout", "read_failed"}
\* the latest two readings
Previous == readings[Len(readings) - 1]
Current == readings[Len(readings)]

\* C21: in TP6's noisy sub-check the samples are rejected exactly when the
\* latest three readings delivered are identical, so a sequence of readings
\* fails the sub-check if and only if it contains a run of three identical
\* readings; two identical readings in a row are accepted, and once all 20
\* readings have been delivered without such a run the sub-check succeeds.
C21_NoisyRuns ==
  TP6_Sampling("noisy") =>
    LET run3 == /\ Len(readings) = 3
                /\ readings[1] = readings[2]
                /\ readings[2] = readings[3]
    IN /\ Rejected("noisy") <=> run3
       /\ run3 => ~passed
       /\ (pc = "tp6_noisy_close" /\ Delivered("noisy"))
            => (sub_ok(obs, "noisy") <=> ~run3)
       /\ (pc = "tp6_noisy_close" /\ Delivered("noisy") /\ ~run3) => cnt = 20

C21_Witness ==
  /\ pc = "tp6_noisy_close"
  /\ Rejected("noisy")
  /\ readings = << 25000, 25000, 25000 >>

\* C22: in TP6's ramp sub-check a reading below 1000 that follows a reading
\* above 99000 is accepted as a wraparound, and a reading that is not greater
\* than the one before it and is no such wraparound fails the sub-check.
C22_RampPairs ==
  (TP6_Sampling("ramp") /\ Len(readings) >= 2) =>
    LET wrap == Previous > 99000 /\ Current < 1000
    IN /\ wrap => ~Rejected("ramp")
       /\ (~wrap /\ ~(Current > Previous)) => (Rejected("ramp") /\ ~passed)
       /\ (pc = "tp6_ramp_close" /\ Rejected("ramp")) => ~sub_ok(obs, "ramp")

C22_Witness ==
  /\ pc = "tp6_ramp_close"
  /\ cnt = 5
  /\ Previous = 0
  /\ readings[Len(readings) - 2] = 99900
  /\ sub_ok(obs, "ramp")

\* C23 as stated: a reading equal to the one before it does not fail TP6's
\* ramp sub-check.
C23_RepeatAccepted ==
  (TP6_Sampling("ramp") /\ Len(readings) >= 2 /\ Current = Previous)
    => ~Rejected("ramp")

\* C23, amended: TP6's ramp sub-check requires every reading to be greater
\* than the one before it (wraparound apart): a reading equal to the one
\* before it is rejected and fails the sub-check.
C23_RepeatFails ==
  (TP6_Sampling("ramp") /\ Len(readings) >= 2 /\ Current = Previous)
    => (Rejected("ramp") /\ ~passed /\ pc = "tp6_ramp_close")

C23_Witness ==
  /\ pc = "tp6_ramp_close"
  /\ Len(readings) >= 2
  /\ Current = Previous

\* the sub-check has ended with ramp_ok / noisy_ok True, or with it False
SubSucceeded(sub) == Obs("sub_ok", sub, 0) \in obs
SubFailed(sub) == Obs("sub_failed", sub, 0) \in obs

\* C24: TP6 returns True if and only if the ramp sub-check and the noisy
\* sub-check both succeeded; every wait for a sample is given the timeout of
\* 300 ms; a sub-check in which a wait timed out or a sample could not be
\* read fails, and a failed sub-check fails TP6; the noisy sub-check is run
\* to its end also when the ramp sub-check has failed.
C24_TP6Verdict ==
  /\ TP6Returned =>
       (ret.value = TRUE <=> (SubSucceeded("ramp") /\ SubSucceeded("noisy")))
  /\ \A e \in obs : e.what = "wait" => e.val = 300
  /\ \A sub \in {"ramp", "noisy"} :
       /\ (pc = TP6_Pc(sub, "close") /\ ~Delivered(sub)) => ~passed
       /\ (TP6Returned /\ SubFailed(sub)) => ret.value = FALSE
  /\ (TP6Returned /\ SubFailed("ramp")) =>
       (SubSucceeded("noisy") \/ SubFailed("noisy"))

(* ----------------------------- device handles ------------------------- *)
\* the calls of a sequence that concern a device handle
HandleCalls(seq) ==
  SelectSeq(seq, LAMBDA c : c.name \in {"open", "unregister", "close"})
\* the life of one handle: TP5 opens without registering for events
HandleLife(f) ==
  IF f = "_test_api_contract_offset"
    THEN << "open", "close" >>
    ELSE << "open", "unregister", "close" >>
\* seq repeats the pattern, and may stop inside a repetition
Repeats(seq, pattern) ==
  \A i \in 1..Len(seq) : seq[i].name = pattern[((i - 1) % Len(pattern)) + 1]
\* seq is a number of complete repetitions of the pattern
Complete(seq, pattern) == Repeats(seq, pattern) /\ Len(seq) % Len(pattern) = 0

\* C25: the calls a test case makes on device handles are, at any moment,
\* open - unregister - close repeated (open - close in TP5), and when the
\* test case returns the last repetition is complete: every handle opened
\* has been closed exactly once, after its registration was removed. The
\* same holds of the TP4 reader thread when it ends.
C25_HandlesReleased ==
  /\ pc \notin {"start", "loop", "done"} =>
       /\ Repeats(HandleCalls(calls), HandleLife(CurrentTest))
       /\ Returned => Complete(HandleCalls(calls), HandleLife(CurrentTest))
  /\ Repeats(r_calls, HandleLife("_reader_thread_func"))
  /\ rpc = "r_done" => Complete(r_calls, HandleLife("_reader_thread_func"))

\* TP6 has returned having opened and released the device twice
C25_Witness ==
  /\ TP6Returned
  /\ Len(calls) = 6

(* --------------------------- the reader's errors ---------------------- *)
\* C28: in a step of the reader thread that meets a failure (the open or the
\* poll raising, an error event, a read error other than "would block", a
\* read of zero bytes) errors grows by exactly one and stop_event is set; in
\* every other step, a read that would block included, errors and stop_event
\* stay as they are, and after a read the reader is back at its loop.
C28_ReaderFailures ==
  [][(rpc \in {"r_open", "r_poll", "r_read"} /\ rpc' # rpc) =>
       IF r_failures' > r_failures
         THEN /\ r_failures' = r_failures + 1
              /\ r_errors' = r_errors + 1
              /\ stop_event'
         ELSE /\ r_errors' = r_errors
              /\ stop_event' = stop_event
              /\ rpc = "r_read" => rpc' = "r_loop"]_vars

(* --------------------------- TP4: the shutdown ------------------------ *)
\* the positions in calls of the calls of one name
CallsOf(name) == {i \in 1..Len(calls) : calls[i].name = name}

\* C29: TP4 sets stop_event before every wait for the reader, whether the
\* writer loop ended by its duration or because stop_event was found set; it
\* waits at most twice, 2 s after the loop and 1 s in the finally block;
\* after stop_event.set() no iteration of the writer loop writes; and the
\* originals are written back only after the last wait.
C29_TP4Shutdown ==
  /\ \A j \in CallsOf("join") : \E s \in CallsOf("stop_event.set") : s < j
  /\ pc \in {"tp4_join", "tp4_join_last"} => stop_event
  /\ \A j \in CallsOf("join") :
       calls[j].arg = (IF \E k \in CallsOf("join") : k < j THEN 1 ELSE 2)
  /\ Cardinality(CallsOf("join")) <= 2
  /\ \A s \in CallsOf("stop_event.set") : \A w \in CallsOf("write") : w < s
  /\ \A r \in CallsOf("restore") :
       /\ \E j \in CallsOf("join") : j < r
       /\ \A j \in CallsOf("join") : j < r

\* TP4 has returned after a writer loop that ended on stop_event, having
\* waited for the reader twice
C29_Witness ==
  /\ Returned
  /\ CurrentTest = "_test_concurrency"
  /\ Obs("writer_loop_ended", "stop_event", 0) \in obs
  /\ Cardinality(CallsOf("join")) = 2
  /\ CallsOf("restore") # {}

\* TP2 is in its alert-wait loop
TP2_InLoop == pc \in {"tp2_loop", "tp2_poll", "tp2_clear"}
\* microseconds left until TEST_TIMEOUT_SECONDS have elapsed since start_time
TP2_Left == TEST_TIMEOUT_SECONDS * 1000000 - now

\* C30: TP2's alert-wait loop always ends: a wait is begun only while no
\* more than 10 s have elapsed since TP2 started, its timeout is the whole
\* milliseconds that are left of the 10 s and at least 1 ms, a wait that
\* reports no event leads back to the head of the loop with the count of
\* alerts and the verdict as they were, and from everywhere in the loop the
\* finally block is reached.
C30_TP2LoopTerminates ==
  /\ [](pc = "tp2_poll" =>
          /\ TP2_Left >= 0
          /\ remaining_ms >= 1
          /\ TP2_Left >= 1000 =>
               /\ remaining_ms * 1000 <= TP2_Left
               /\ TP2_Left < (remaining_ms + 1) * 1000
          /\ TP2_Left < 1000 => remaining_ms = 1)
  /\ [][(pc = "tp2_poll" /\ pc' # "tp2_poll" /\ events' = {}) =>
          (pc' = "tp2_loop" /\ cnt' = cnt /\ passed' = passed)]_vars
  /\ TP2_InLoop ~> (pc = "tp2_finally")

\* after a wait that reported no event less than a millisecond is left, and
\* the next wait is begun with a timeout of 1 ms
C30_Witness ==
  /\ pc = "tp2_poll"
  /\ events = {}
  /\ TP2_Left < 1000
  /\ remaining_ms = 1

\* the value the well-formed tokens parts state for the counter c: that of the
\* last token with this key, and -1 if there is none
RECURSIVE Stated(_, _)
Stated(parts, c) ==
  IF parts = << >> THEN -1
  ELSE LET last == CHOOSE w \in WellFormed : Token(w) = parts[Len(parts)]
       IN  IF last.key = c THEN last.value
                           ELSE Stated(SubSeq(parts, 1, Len(parts) - 1), c)

\* C26: _parse_stats returns -1 for updates, alerts and errors alike when it
\* is given no text or a text in which some whitespace-separated token is
\* not one "=" with an integer after it, whatever the tokens before it were;
\* for a text of key=integer tokens only, each counter has the value stated
\* for it (0 for 0) and -1 if the text does not name it.
C26_ParseStats ==
  stats.kind = "return" =>
    IF \/ stats_str = None
       \/ \E i \in 1..Len(stats_parts) : stats_parts[i] \notin WellFormedTokens
      THEN \A c \in Counters : stats.value[c] = -1
      ELSE \A c \in Counters : stats.value[c] = Stated(stats_parts, c)

\* a text whose first two tokens parse and whose third does not has been
\* parsed
C26_Witness ==
  /\ stats.kind = "return"
  /\ Len(stats_parts) = 3
  /\ stats_parts[1] = << "updates", "=", "1", "5" >>
  /\ stats_parts[2] = << "alerts", "=", "0" >>
  /\ stats_parts[3] \in MalformedTokens
  /\ \A c \in Counters : stats.value[c] = -1

\* the temperature, in millidegrees, that four bytes of a sample stand for
KnownTemps ==
  (<< 168, 97, 0, 0 >> :> 25000) @@ (<< 24, 252, 255, 255 >> :> -1000)
    @@ (<< 0, 0, 0, 128 >> :> -2147483647 - 1)

\* C27: parse_sample returns no sample exactly when its input is not 16
\* bytes long, be it shorter, empty or longer; a 16-byte input gives a
\* triple whose temperature is the signed little-endian value of bytes 9 to
\* 12; _read_sample returns no sample exactly when the read fails or returns
\* anything but 16 bytes.
C27_DecodeIffLength ==
  /\ sample.kind = "return" =>
       /\ (sample.value = None) <=> (Len(raw_data) # 16)
       /\ Len(raw_data) = 16 =>
            /\ Len(sample.value[1]) = 3
            /\ sample.value[1][2] = KnownTemps[SubSeq(raw_data, 9, 12)]
            /\ sample.value[1][1] >= 0
            /\ sample.value[1][3] >= 0
  /\ read_ret.kind = "return" =>
       ((read_ret.value = None) <=> (os_error \/ Len(raw_data) # 16))

\* an input of more than 16 bytes has been rejected by both functions
C27_Witness ==
  /\ sample = Return(None)
  /\ read_ret = Return(None)
  /\ ~os_error
  /\ Len(raw_data) > 16

\* what TP1's coherence loop has met
CoherenceFailures == {o \in obs : /\ o.where = "coherence"
                                   /\ o.what \in {"timeout", "read_failed"}}

\* C31: every wait of TP1's coherence loop has a timeout of 300 ms; once a
\* wait has timed out or a sample could not be read the loop waits and reads
\* no more; and TP1 returns True only after all 3 samples were read.
C31_CoherenceRequired ==
  (idx <= Len(test_functions) /\ CurrentTest = "_test_periodic_read") =>
    /\ \A o \in obs : (o.what = "wait" /\ o.where = "coherence") => o.val = 300
    /\ CoherenceFailures # {} => pc \notin {"tp1_poll", "tp1_read"}
    /\ (TP1Returned /\ ret.value) => cnt = TP1_COHERENCE_READS

\* TP4 is the running test case
InTP4 == idx <= Len(test_functions) /\ CurrentTest = "_test_concurrency"
\* the writer loop was left by the break on stop_event
EarlyCancel == Obs("writer_loop_ended", "stop_event", 0) \in obs

\* C32: the reader thread sets stop_event only in a step that also adds one
\* to its error count, so while the writer loop runs a set stop_event means
\* an error count of at least 1; the count the reader publishes when it ends
\* is that count; and TP4 returns False whenever the reader counted an
\* error, in particular when the writer loop was left on stop_event before
\* its duration had elapsed.
C32_EarlyCancelFails ==
  /\ [][(~stop_event /\ stop_event' /\ pc' = pc) => r_errors' = r_errors + 1]_vars
  /\ []((InTP4 /\ pc \in {"tp4_loop", "tp4_write", "tp4_stop"} /\ stop_event)
          => r_errors >= 1)
  /\ []((InTP4 /\ rpc = "r_done") => reader_results.errors = r_errors)
  /\ []((InTP4 /\ EarlyCancel) => r_errors >= 1)
  /\ []((InTP4 /\ Returned /\ r_errors >= 1) => ~ret.value)

\* the reader met an error while the writer loop ran: the loop was left on
\* stop_event, the reader ended within the join and published its count,
\* no write had failed, and TP4 returned False
C32_Witness ==
  /\ InTP4
  /\ Returned
  /\ EarlyCancel
  /\ ~alive_at_check
  /\ writer_errors = 0
  /\ reader_results.errors >= 1
  /\ ~ret.value

\* C33: whatever the index i of an iteration of TP4's writer loop, the
\* values it writes are inside the bounds: sampling_ms is
\* 100 + (i mod 10) * 10 and lies in 100..60000, threshold_mc is
\* (i * 1000 mod 200000) - 50000 and lies in -50000..150000, and mode is
\* one of normal, noisy and ramp; so the configuration the loop leaves
\* behind is always within the bounds.
C33_WriterInBounds ==
  (pc \in {"tp4_write", "tp4_loop"} /\ idx = 4) =>
    /\ cfg.sampling_ms \in 100..60000
    /\ cfg.threshold_mc \in -50000..150000
    /\ cfg.mode \in {"normal", "noisy", "ramp"}
    /\ (pc = "tp4_loop" /\ wi > 0 /\ writer_errors = 0) =>
         /\ cfg.sampling_ms = 100 + ((wi - 1) % 10) * 10
         /\ cfg.threshold_mc = (((wi - 1) * 1000) % 200000) - 50000

\* iteration 199 has written the largest threshold of the loop
C33_Witness ==
  /\ pc = "tp4_loop"
  /\ wi = 200
  /\ writer_errors = 0
  /\ cfg.threshold_mc = 149000
  /\ cfg.sampling_ms = 190

TP5Returned == Returned /\ CurrentTest = "_test_api_contract_offset"

\* C35: TP5 returns True only after the read at offset 1 was attempted on
\* the opened device; whenever os.open failed, with whatever errno, TP5
\* returns False.
C35_OpenFailureFails ==
  TP5Returned =>
    /\ ret.value => \E o \in obs : o.what = "pread" /\ o.val = 1
    /\ (\E o \in obs : o.what = "open" /\ o.where # "ok") => ~ret.value

\* the names under which the six test cases are recorded
TestNames == {test_name(test_functions[i]) : i \in 1..Len(test_functions)}

\* C34: every call of a test function ends in the return of a boolean,
\* whatever the device and the configuration attributes do in its body: no
\* test case is ever recorded by the except branch of run_all_tests, and
\* when the suite is through all six test cases have a boolean outcome of
\* their own.
C34_NoFaultEscapes ==
  /\ escaped = {}
  /\ pc = "record" => (ret.kind = "return" /\ ret.value \in BOOLEAN)
  /\ \A n \in DOMAIN results : results[n] \in BOOLEAN
  /\ (pc = "done" /\ PreconditionsHold(euid, dev_exists, sysfs_exists)) =>
       DOMAIN results = TestNames

\* a test case in whose body a device call raised OSError with errno EIO
\* has returned False
C34_Witness ==
  /\ Returned
  /\ \E o \in obs : o.what \in {"open", "pread"} /\ o.where = "EIO"
  /\ ret = Return(FALSE)
  /\ escaped = {}

====
